---- MODULE Spec2Model ----
(***************************************************************************)
(* Model of cloudopti: the bill-to-resource reconciliation pipeline.       *)
(*                                                                         *)
(*   SpecRun       cli.main -> AWSCostMonitor.run, step by step            *)
(*   SpecClassify  service_mapper.get_services_to_discover on any bill     *)
(*   SpecCost      CostMapper.map_costs_to_resources on any inventory      *)
(*   SpecSizing    InstanceAnalyzer.recommend_instance_type                *)
(*   SpecRules     generate_resource_recommendations on any arguments      *)
(*   SpecAdvise    telemetry, analysis and recommendations of a run        *)
(*   SpecDiscovery ResourceDiscovery and its discover_* methods            *)
(*                                                                         *)
(* Python values are modelled structurally: an ordered dict is a sequence  *)
(* of records in insertion order, a float amount of money is an integer    *)
(* (bill amounts) or an exact rational [num, den] (amounts after a         *)
(* division), prices are integers in 1/10000 dollar.                       *)
(***************************************************************************)
EXTENDS Integers, Sequences, FiniteSets, TLC

VARIABLES
    pc,                   \* position of the modelled call
    ce_response,          \* billing summary collaborator: "raise" or its Groups
    costs_by_service,     \* ordered dict service name -> amount
    total_cost,           \* sum of the positive amounts
    services_to_discover, \* local of run / result of get_services_to_discover
    inventory,            \* what each discover_* method finds in the account
    resources,            \* ordered dict discovery key -> discovered records
    stages,               \* the stage calls made so far, in call order
    exit_code,            \* process exit code, NoExit while running
    report_saved,         \* TRUE once ExcelExporter.export saved a workbook
    stderr,               \* what cli.main printed on stderr
    sheets,               \* sheet titles of the saved workbook, in order
    args,                 \* arguments of the function called directly
    returned              \* its return values, one per call, in call order

runLocals == <<ce_response, costs_by_service, total_cost,
               services_to_discover, inventory, resources, stages, exit_code,
               report_saved, stderr, sheets>>

runVars == <<pc, runLocals>>

callVars == <<args, returned>>

vars == <<runVars, callVars>>

(***************************************************************************)
(* Bounds of the model.                                                    *)
(***************************************************************************)
MaxItems == 3         \* line items on one bill
MaxAmount == 3        \* amounts on a bill range over 1..MaxAmount
MaxCalls == 2         \* calls of one pure function on the same input
MaxResources == 3     \* discovered resources of one category
MaxRows == 2          \* rows returned by the per-resource billing queries of one category
MaxCpu == 100         \* observed CPU utilisation, in percent

None == "None"
NoMemory == -1
NoExit == -1

Amounts == 1..MaxAmount

\* Amounts the billing API may report: also zero and credits.
RawAmounts == (-1..MaxAmount)

\* Billing names in the responses of the billing summary query.
RunNames ==
    {"Amazon Elastic Compute Cloud - Compute", "EC2 - Other",
     "Amazon Simple Storage Service", "Amazon Relational Database Service", "Tax"}

\* Billing names on the modelled bills: mapped names (two of them share the
\* key EC2), an excluded name and a name absent from the table.
BillNames ==
    {"Amazon Elastic Compute Cloud - Compute", "EC2 - Other",
     "Amazon Simple Storage Service", "Amazon Relational Database Service",
     "Tax", "AWS Cost Explorer"}

InjSeqs(S, k) == {ns \in [1..k -> S] : \A i, j \in 1..k : i # j => ns[i] # ns[j]}

\* The ordered dict pairing the names ns with the amounts as.
Items(ns, as) == [i \in 1..Len(ns) |-> [name |-> ns[i], cost |-> as[i]]]

(***************************************************************************)
(* Generic helpers for Python built-ins.                                   *)
(***************************************************************************)
Range(s) == {s[i] : i \in 1..Len(s)}

\* Insert x into a descending-sorted sequence after every element whose key
\* is >= x.cost: the position of a later input element in a stable sort.
RECURSIVE InsertDesc(_, _)
InsertDesc(x, s) ==
    IF s = <<>> THEN <<x>>
    ELSE IF Head(s).cost >= x.cost THEN <<Head(s)>> \o InsertDesc(x, Tail(s))
    ELSE <<x>> \o s

\* sorted(items, key=lambda x: x[1], reverse=True): stable, descending.
RECURSIVE SortedByCostDesc(_)
SortedByCostDesc(s) ==
    IF s = <<>> THEN <<>>
    ELSE InsertDesc(s[Len(s)], SortedByCostDesc(SubSeq(s, 1, Len(s) - 1)))

RECURSIVE SumCost(_)
SumCost(s) == IF s = <<>> THEN 0 ELSE Head(s).cost + SumCost(Tail(s))

\* dict lookup in an ordered dict of [name, cost] records.
HasName(d, n) == \E i \in 1..Len(d) : d[i].name = n
CostOf(d, n) == d[CHOOSE i \in 1..Len(d) : d[i].name = n].cost

(***************************************************************************)
(* service_mapper.py                                                       *)
(***************************************************************************)
SERVICE_MAP ==
    [n \in {"Amazon Elastic Compute Cloud - Compute", "EC2 - Other", "EC2-Other",
            "Amazon Elastic Container Service for Kubernetes", "Amazon EKS",
            "Amazon Simple Storage Service", "Amazon Relational Database Service",
            "Amazon Virtual Private Cloud", "AWS Lambda", "Amazon DynamoDB",
            "Amazon Elastic Load Balancing", "AmazonCloudWatch", "Amazon Route 53",
            "AWS Systems Manager", "AWS Secrets Manager", "Amazon GuardDuty"} |->
        CASE n \in {"Amazon Elastic Compute Cloud - Compute", "EC2 - Other", "EC2-Other"} -> "EC2"
          [] n \in {"Amazon Elastic Container Service for Kubernetes", "Amazon EKS"} -> "EKS"
          [] n = "Amazon Simple Storage Service" -> "S3"
          [] n = "Amazon Relational Database Service" -> "RDS"
          [] n = "Amazon Virtual Private Cloud" -> "VPC"
          [] n = "AWS Lambda" -> "Lambda"
          [] n = "Amazon DynamoDB" -> "DynamoDB"
          [] n = "Amazon Elastic Load Balancing" -> "ELB"
          [] n = "AmazonCloudWatch" -> "CloudWatch"
          [] n = "Amazon Route 53" -> "Route53"
          [] n = "AWS Systems Manager" -> "SystemsManager"
          [] n = "AWS Secrets Manager" -> "SecretsManager"
          [] n = "Amazon GuardDuty" -> "GuardDuty"]

\* SERVICE_MAP.get(service_name)
ServiceMapGet(n) == IF n \in DOMAIN SERVICE_MAP THEN SERVICE_MAP[n] ELSE None

non_resource_services ==
    {"Tax", "AWS Support (Business)", "AWS Support (Developer)",
     "AWS Support (Enterprise)", "AWS Support (Basic)"}

\* Mutant: sort ascending and reverse the result, which reverses the ties.
RECURSIVE ReverseSeq(_)
ReverseSeq(s) == IF s = <<>> THEN <<>> ELSE Append(ReverseSeq(Tail(s)), Head(s))

sorted_services_TiesReversed(bill) == SortedByCostDesc(ReverseSeq(bill))

sorted_services(bill) == SortedByCostDesc(bill)

\* Mutant: the discovery key is appended for every line item.
ClassifyStep_NoDedup(acc, item) ==
    IF item.name \in non_resource_services THEN acc
    ELSE LET discovery_key == ServiceMapGet(item.name) IN
         IF discovery_key = None THEN acc
         ELSE LET entry == [bill_name |-> item.name, cost |-> item.cost]
                  old == IF discovery_key \in DOMAIN acc.mapping
                         THEN acc.mapping[discovery_key] ELSE <<>>
              IN [list |-> Append(acc.list, discovery_key),
                  mapping |-> [k \in DOMAIN acc.mapping \cup {discovery_key} |->
                                  IF k = discovery_key THEN Append(old, entry)
                                  ELSE acc.mapping[k]]]

\* Mutant: only the first billing name of a key is recorded in the mapping.
ClassifyStep_FirstNameOnly(acc, item) ==
    IF item.name \in non_resource_services THEN acc
    ELSE LET discovery_key == ServiceMapGet(item.name) IN
         IF discovery_key = None THEN acc
         ELSE LET entry == [bill_name |-> item.name, cost |-> item.cost]
              IN [list |-> IF discovery_key \in Range(acc.list)
                           THEN acc.list
                           ELSE Append(acc.list, discovery_key),
                  mapping |-> [k \in DOMAIN acc.mapping \cup {discovery_key} |->
                                  IF k \in DOMAIN acc.mapping THEN acc.mapping[k]
                                  ELSE <<entry>>]]

\* The loop body of get_services_to_discover, folded over the sorted items.
\* acc = [list: the discovery keys, mapping: key -> seq of [bill_name, cost]]
ClassifyStep(acc, item) ==
    IF item.name \in non_resource_services THEN acc
    ELSE LET discovery_key == ServiceMapGet(item.name) IN
         IF discovery_key = None THEN acc
         ELSE LET entry == [bill_name |-> item.name, cost |-> item.cost]
                  old == IF discovery_key \in DOMAIN acc.mapping
                         THEN acc.mapping[discovery_key] ELSE <<>>
              IN [list |-> IF discovery_key \in Range(acc.list)
                           THEN acc.list
                           ELSE Append(acc.list, discovery_key),
                  mapping |-> [k \in DOMAIN acc.mapping \cup {discovery_key} |->
                                  IF k = discovery_key THEN Append(old, entry)
                                  ELSE acc.mapping[k]]]

RECURSIVE ClassifyFold(_, _)
ClassifyFold(acc, items) ==
    IF items = <<>> THEN acc
    ELSE ClassifyFold(ClassifyStep(acc, Head(items)), Tail(items))

\* Returns the pair (services_to_discover, service_mapping).
get_services_to_discover(bill) ==
    ClassifyFold([list |-> <<>>, mapping |-> <<>>], sorted_services(bill))

(***************************************************************************)
(* resource_discovery.py: discover_all_resources                           *)
(***************************************************************************)
PyStr(v) == [pytype |-> "str", val |-> v]
PyList(v) == [pytype |-> "list", val |-> v]
PyDict(v) == [pytype |-> "dict", val |-> v]

\* The keys discover_all_resources has a branch for.
DiscoveryKeys ==
    {"EC2", "EKS", "RDS", "VPC", "S3", "Lambda", "DynamoDB", "ELB", "Route53",
     "SecretsManager", "SystemsManager", "CloudWatch", "GuardDuty"}

\* ', '.join(seq) raises TypeError unless every item is a str.
JoinRaises(items) == \E i \in 1..Len(items) : items[i].pytype # "str"

\* resources[key] = self.discover_<key>() for each key in turn; assigning an
\* existing key keeps its position in the dict.
RECURSIVE DiscoverLoop(_, _, _)
DiscoverLoop(keys, inv, acc) ==
    IF keys = <<>> THEN acc
    ELSE LET k == Head(keys).val IN
         DiscoverLoop(Tail(keys), inv,
             IF k \notin DiscoveryKeys \/ (\E i \in 1..Len(acc) : acc[i].key = k)
             THEN acc
             ELSE Append(acc, [key |-> k, items |-> inv[k]]))

\* keys: the sequence passed as services_to_discover (None is not modelled:
\* run always passes a value). Result: raised, or the resources dict.
discover_all_resources(keys, inv) ==
    IF Len(keys) = 0 THEN [raised |-> FALSE, resources |-> <<>>]
    ELSE IF JoinRaises(keys) THEN [raised |-> TRUE, resources |-> <<>>]
    ELSE [raised |-> FALSE, resources |-> DiscoverLoop(keys, inv, <<>>)]

(***************************************************************************)
(* aws_cost_monitor.py: fetch_costs_by_service and run; cli.py: main       *)
(***************************************************************************)
\* Mutant: a line item of amount 0 is kept.
RECURSIVE PositiveGroups_NonNegative(_)
PositiveGroups_NonNegative(groups) ==
    IF groups = <<>> THEN <<>>
    ELSE IF Head(groups).cost >= 0
         THEN <<Head(groups)>> \o PositiveGroups_NonNegative(Tail(groups))
         ELSE PositiveGroups_NonNegative(Tail(groups))

RECURSIVE PositiveGroups(_)
PositiveGroups(groups) ==
    IF groups = <<>> THEN <<>>
    ELSE IF Head(groups).cost > 0
         THEN <<Head(groups)>> \o PositiveGroups(Tail(groups))
         ELSE PositiveGroups(Tail(groups))

\* The parsed and sorted response: (costs_by_service, total_cost).
fetch_costs_by_service(groups) ==
    [costs_by_service |-> SortedByCostDesc(PositiveGroups(groups)),
     total_cost |-> SumCost(PositiveGroups(groups))]

EmptyClassification == [list |-> <<>>, mapping |-> <<>>]

NoArgs == [fn |-> "none"]

\* The account: empty, or one resource behind every discovery key.
Inventories ==
    {[k \in DiscoveryKeys |-> <<>>],
     [k \in DiscoveryKeys |-> <<[id |-> "r1", region |-> "us-east-1"]>>]}

InitRun ==
    /\ pc = "start"
    /\ \/ ce_response = [ok |-> FALSE, groups |-> <<>>]
       \/ \E k \in 0..MaxItems :
            \E ns \in InjSeqs(RunNames, k), as \in [1..k -> RawAmounts] :
                ce_response = [ok |-> TRUE, groups |-> Items(ns, as)]
    /\ inventory \in Inventories
    /\ costs_by_service = <<>>
    /\ total_cost = 0
    /\ services_to_discover = EmptyClassification
    /\ resources = <<>>
    /\ stages = <<>>
    /\ exit_code = NoExit
    /\ report_saved = FALSE
    /\ stderr = ""
    /\ sheets = <<>>
    /\ args = NoArgs
    /\ returned = <<>>

\* main: an exception out of run is printed to stderr and the process exits 1.
CliExit(msg) ==
    /\ stderr' = msg
    /\ exit_code' = 1
    /\ pc' = "exited"

\* run line 231, the billing summary query raises: fetch_costs_by_service
\* re-raises, run does not catch.
RunFetchRaise ==
    /\ pc = "start"
    /\ ~ce_response.ok
    /\ stages' = Append(stages, "fetch_costs_by_service")
    /\ CliExit("Failed to fetch AWS costs")
    /\ UNCHANGED <<ce_response, inventory, costs_by_service, total_cost,
                   services_to_discover, resources, report_saved, sheets, callVars>>

RunFetchOk ==
    /\ pc = "start"
    /\ ce_response.ok
    /\ stages' = Append(stages, "fetch_costs_by_service")
    /\ costs_by_service' = fetch_costs_by_service(ce_response.groups).costs_by_service
    /\ total_cost' = fetch_costs_by_service(ce_response.groups).total_cost
    /\ pc' = "fetched"
    /\ UNCHANGED <<ce_response, inventory, services_to_discover, resources,
                   exit_code, report_saved, stderr, sheets, callVars>>

\* run lines 233-235: nothing billed, return normally.
RunNoCosts ==
    /\ pc = "fetched"
    /\ costs_by_service = <<>>
    /\ exit_code' = 0
    /\ pc' = "exited"
    /\ UNCHANGED <<ce_response, inventory, costs_by_service, total_cost,
                   services_to_discover, resources, stages, report_saved, stderr,
                   sheets, callVars>>

\* run line 244: the local services_to_discover receives the whole pair.
RunClassify ==
    /\ pc = "fetched"
    /\ costs_by_service # <<>>
    /\ stages' = Append(stages, "get_services_to_discover")
    /\ services_to_discover' = get_services_to_discover(costs_by_service)
    /\ pc' = "classified"
    /\ UNCHANGED <<ce_response, inventory, costs_by_service, total_cost,
                   resources, exit_code, report_saved, stderr, sheets, callVars>>

\* What run line 245 passes: the 2-tuple (list, dict) itself.
RunDiscoverArgs == <<PyList(services_to_discover.list), PyDict(services_to_discover.mapping)>>

\* run line 245.
RunDiscover ==
    /\ pc = "classified"
    /\ stages' = Append(stages, "discover_all_resources")
    /\ LET r == discover_all_resources(RunDiscoverArgs, inventory) IN
       IF r.raised
       THEN /\ CliExit("sequence item 0: expected str instance, list found")
            /\ UNCHANGED resources
       ELSE /\ resources' = r.resources
            /\ pc' = "discovered"
            /\ UNCHANGED <<exit_code, stderr>>
    /\ UNCHANGED <<ce_response, inventory, costs_by_service, total_cost,
                   services_to_discover, report_saved, sheets, callVars>>

NextRun == RunFetchRaise \/ RunFetchOk \/ RunNoCosts \/ RunClassify \/ RunDiscover

SpecRun == InitRun /\ [][NextRun]_vars

\* Amounts of a line item: a credit, zero, a charge.
FairAmounts == {-1, 0, 2}

\* Runs on bills of at most two line items.
InitRunFair ==
    /\ pc = "start"
    /\ \/ ce_response = [ok |-> FALSE, groups |-> <<>>]
       \/ \E k \in 0..2 :
            \E ns \in InjSeqs(RunNames, k), as \in [1..k -> FairAmounts] :
                ce_response = [ok |-> TRUE, groups |-> Items(ns, as)]
    /\ inventory \in Inventories
    /\ costs_by_service = <<>>
    /\ total_cost = 0
    /\ services_to_discover = EmptyClassification
    /\ resources = <<>>
    /\ stages = <<>>
    /\ exit_code = NoExit
    /\ report_saved = FALSE
    /\ stderr = ""
    /\ sheets = <<>>
    /\ args = NoArgs
    /\ returned = <<>>

\* run is sequential code: a run that can take its next step takes it.
SpecRunFair == InitRunFair /\ [][NextRun]_vars /\ WF_vars(NextRun)

(***************************************************************************)
(* SpecClassify: get_services_to_discover called on any ordered dict of    *)
(* positive amounts, up to MaxCalls times on the same dict.                *)
(***************************************************************************)
RunIdle ==
    /\ ce_response = [ok |-> TRUE, groups |-> <<>>]
    /\ inventory = [k \in DiscoveryKeys |-> <<>>]
    /\ costs_by_service = <<>>
    /\ total_cost = 0
    /\ services_to_discover = EmptyClassification
    /\ resources = <<>>
    /\ stages = <<>>
    /\ exit_code = NoExit
    /\ report_saved = FALSE
    /\ stderr = ""
    /\ sheets = <<>>

\* Scenario A of the specification.
ScenarioA == <<[name |-> "Amazon Simple Storage Service", cost |-> 150],
               [name |-> "Tax", cost |-> 12]>>

InitClassify ==
    /\ pc = "call"
    /\ RunIdle
    /\ returned = <<>>
    /\ \/ args = [fn |-> "get_services_to_discover", costs_by_service |-> ScenarioA]
       \/ \E k \in 0..MaxItems :
            \E ns \in InjSeqs(BillNames, k), as \in [1..k -> Amounts] :
                args = [fn |-> "get_services_to_discover",
                        costs_by_service |-> Items(ns, as)]

CallClassify ==
    /\ pc \in {"call", "returned"}
    /\ Len(returned) < MaxCalls
    /\ returned' = Append(returned, get_services_to_discover(args.costs_by_service))
    /\ pc' = "returned"
    /\ UNCHANGED <<args, runLocals>>

NextClassify == CallClassify

SpecClassify == InitClassify /\ [][NextClassify]_vars

(***************************************************************************)
(* Claims on the classifier (SpecClassify).                                *)
(***************************************************************************)
Classified == args.fn = "get_services_to_discover" /\ pc = "returned"
Bill == args.costs_by_service
CatList == returned[1].list
Trace == returned[1].mapping

\* A line item that is neither excluded nor absent from the table.
Contributes(item) ==
    item.name \notin non_resource_services /\ item.name \in DOMAIN SERVICE_MAP

\* Input positions of the line items that contribute to category c.
Contributors(c) ==
    {i \in 1..Len(Bill) : Contributes(Bill[i]) /\ SERVICE_MAP[Bill[i].name] = c}

BilledCategories == {c \in DiscoveryKeys : Contributors(c) # {}}

\* The amount of the highest-cost line item of category c.
TopAmount(c) == CHOOSE a \in {Bill[i].cost : i \in Contributors(c)} :
                    \A i \in Contributors(c) : Bill[i].cost <= a

\* The first input position at which category c has its top amount.
TopPosition(c) == CHOOSE i \in Contributors(c) :
                    /\ Bill[i].cost = TopAmount(c)
                    /\ \A j \in Contributors(c) : Bill[j].cost = TopAmount(c) => i <= j

\* The position in the code's descending scan of the first contributor of c.
FirstScanPosition(c) ==
    LET sc == sorted_services(Bill)
        hits == {p \in 1..Len(sc) : Contributes(sc[p]) /\ SERVICE_MAP[sc[p].name] = c}
    IN CHOOSE p \in hits : \A q \in hits : p <= q

\* C5: each category is returned at most once, in the order of first
\* occurrence in the amount-descending scan, that is by the amount of the
\* highest-cost contributing line item of each category.
C5_DedupFirstOccurrence ==
    Classified =>
        /\ \A i, j \in 1..Len(CatList) : i # j => CatList[i] # CatList[j]
        /\ Range(CatList) = BilledCategories
        /\ \A i, j \in 1..Len(CatList) : i < j =>
              /\ FirstScanPosition(CatList[i]) < FirstScanPosition(CatList[j])
              /\ TopAmount(CatList[i]) >= TopAmount(CatList[j])

\* Two billing names of one category and a second category on the bill.
C5_Witness ==
    /\ Classified
    /\ \E c \in BilledCategories : Cardinality(Contributors(c)) >= 2
    /\ Len(CatList) >= 2

\* C6: the classifier is deterministic and its tie-break is stable: two
\* calls on the same bill return the same order and the same traceability
\* maps, and line items of equal amount keep their input order, in the
\* category order and inside every traceability list.
C6_DeterministicStable ==
    Classified =>
        /\ \A n \in 1..Len(returned) : returned[n] = returned[1]
        /\ \A i, j \in 1..Len(CatList) :
              (i < j /\ TopAmount(CatList[i]) = TopAmount(CatList[j]))
                  => TopPosition(CatList[i]) < TopPosition(CatList[j])
        /\ \A c \in DOMAIN Trace : \A p, q \in 1..Len(Trace[c]) :
              (p < q /\ Trace[c][p].cost = Trace[c][q].cost) =>
                  \E i, j \in 1..Len(Bill) :
                      /\ i < j
                      /\ Bill[i].name = Trace[c][p].bill_name
                      /\ Bill[j].name = Trace[c][q].bill_name

\* Two calls made on a bill where two categories tie on their top amount and
\* one category has two line items of the same amount.
C6_Witness ==
    /\ Classified
    /\ Len(returned) = MaxCalls
    /\ \E i, j \in 1..Len(CatList) :
          i < j /\ TopAmount(CatList[i]) = TopAmount(CatList[j])
    /\ \E c \in DOMAIN Trace : \E p, q \in 1..Len(Trace[c]) :
          p < q /\ Trace[c][p].cost = Trace[c][q].cost

\* C7: excluded and unmapped line items contribute no category and no
\* traceability entry (scenario A yields [S3] only); every other line item
\* is exactly once in the traceability list of its category, and every
\* traceability list is sorted by amount descending.
C7_TraceabilityExact ==
    Classified =>
        /\ Bill = ScenarioA => (CatList = <<"S3">> /\ DOMAIN Trace = {"S3"})
        /\ DOMAIN Trace = BilledCategories
        /\ \A i \in 1..Len(Bill) : \A c \in DOMAIN Trace :
              Cardinality({p \in 1..Len(Trace[c]) :
                              Trace[c][p].bill_name = Bill[i].name}) =
                  IF Contributes(Bill[i]) /\ SERVICE_MAP[Bill[i].name] = c THEN 1 ELSE 0
        /\ \A c \in DOMAIN Trace : \A p \in 1..Len(Trace[c]) :
              /\ \E i \in Contributors(c) :
                    Trace[c][p] = [bill_name |-> Bill[i].name, cost |-> Bill[i].cost]
              /\ \A q \in 1..Len(Trace[c]) : p < q => Trace[c][p].cost >= Trace[c][q].cost

\* Scenario A has been classified.
C7_Witness ==
    /\ Classified
    /\ Bill = ScenarioA
    /\ CatList = <<"S3">>

(***************************************************************************)
(* cost_mapper.py.  Identifiers are sequences of characters, so that       *)
(* Python's substring test is computed.  A float that results from a       *)
(* division is the exact rational [num, den]; rounding is not modelled.    *)
(***************************************************************************)
Rat(n, d) == [num |-> n, den |-> d]
RatEq(a, b) == a.num * b.den = b.num * a.den
RatAdd(a, b) == Rat(a.num * b.den + b.num * a.den, a.den * b.den)

\* small in big (Python's `in` on two str).
IsSubstring(small, big) ==
    \E i \in 0..(Len(big) - Len(small)) :
        \A j \in 1..Len(small) : big[i + j] = small[j]

\* cost_mapper.py lines 79 and 138.
MatchEither(known_id, resource_id) ==
    IsSubstring(known_id, resource_id) \/ IsSubstring(resource_id, known_id)

\* cost_mapper.py line 181.
MatchS3(bucket_name, resource_id) ==
    IsSubstring(bucket_name, resource_id) \/ resource_id = bucket_name

DictSet(d, k, v) == [x \in DOMAIN d \cup {k} |-> IF x = k THEN v ELSE d[x]]

\* The inner loop with its break: the first known id that matches the row.
RECURSIVE FirstMatch(_, _, _)
FirstMatch(ids, resource_id, s3) ==
    IF ids = <<>> THEN None
    ELSE IF (IF s3 THEN MatchS3(Head(ids), resource_id)
                   ELSE MatchEither(Head(ids), resource_id))
         THEN Head(ids)
         ELSE FirstMatch(Tail(ids), resource_id, s3)

\* The loop over the Groups of one response.
RECURSIVE ApplyRows(_, _, _, _)
ApplyRows(costs, rows, ids, s3) ==
    IF rows = <<>> THEN costs
    ELSE LET hit == FirstMatch(ids, Head(rows).resource_id, s3) IN
         ApplyRows(IF hit = None THEN costs
                   ELSE DictSet(costs, hit, Rat(Head(rows).amount, 1)),
                   Tail(rows), ids, s3)

Regions == <<"us-east-1", "us-west-2">>

\* [inst_id for inst_id, reg in zip(instance_ids, regions) if reg == region]
RECURSIVE RegionInstances(_, _)
RegionInstances(items, region) ==
    IF items = <<>> THEN <<>>
    ELSE IF Head(items).region = region
         THEN <<Head(items).id>> \o RegionInstances(Tail(items), region)
         ELSE RegionInstances(Tail(items), region)

\* The loop over set(regions) of get_ec2_instance_costs and
\* get_rds_instance_costs; a raising query leaves the map as it is.
RECURSIVE RegionLoop(_, _, _, _)
RegionLoop(costs, regs, items, lookup) ==
    IF regs = <<>> THEN costs
    ELSE LET region_instances == RegionInstances(items, Head(regs))
             response == lookup[Head(regs)]
         IN RegionLoop(IF region_instances = <<>> \/ ~response.ok THEN costs
                       ELSE ApplyRows(costs, response.rows, region_instances, FALSE),
                       Tail(regs), items, lookup)

get_ec2_instance_costs(items, lookup) == RegionLoop(<<>>, Regions, items, lookup)

get_rds_instance_costs(items, lookup) == RegionLoop(<<>>, Regions, items, lookup)

get_s3_bucket_costs(items, lookup) ==
    IF ~lookup["global"].ok THEN <<>>
    ELSE ApplyRows(<<>>, lookup["global"].rows, [i \in 1..Len(items) |-> items[i].id], TRUE)

\* {i: total_cost / resource_count for i in range(resource_count)}
get_service_cost_distribution(total, resource_count) ==
    IF resource_count = 0 THEN <<>>
    ELSE [i \in 0..(resource_count - 1) |-> Rat(total, resource_count)]

\* resources.get(key), None read as the empty list.
ResourcesGet(res, key) ==
    IF \E i \in 1..Len(res) : res[i].key = key
    THEN res[CHOOSE i \in 1..Len(res) : res[i].key = key].items
    ELSE <<>>

\* The billing name whose amount each block of map_costs_to_resources splits.
FallbackName ==
    [EC2 |-> "Amazon Elastic Compute Cloud - Compute",
     RDS |-> "Amazon Relational Database Service",
     S3 |-> "Amazon Simple Storage Service",
     EKS |-> "Amazon Elastic Container Service for Kubernetes"]

\* Mutant: the split divides by one more than the number of resources.
EvenSplit_OffByOne(items, total) ==
    [id \in {items[i].id : i \in 1..Len(items)} |-> Rat(total, Len(items) + 1)]

\* {inst_id: total / len(instance_ids) for inst_id in instance_ids}
EvenSplit(items, total) ==
    [id \in {items[i].id : i \in 1..Len(items)} |-> Rat(total, Len(items))]

\* Mutant: the resources without a granular cost get the even share.
WithFallback_FillUnmatched(costs, items, key, bill) ==
    IF HasName(bill, FallbackName[key])
    THEN [id \in {items[i].id : i \in 1..Len(items)} |->
             IF id \in DOMAIN costs THEN costs[id]
             ELSE Rat(CostOf(bill, FallbackName[key]), Len(items))]
    ELSE costs

\* if not costs and '<name>' in costs_by_service: split the service total.
WithFallback(costs, items, key, bill) ==
    IF DOMAIN costs = {} /\ HasName(bill, FallbackName[key])
    THEN EvenSplit(items, CostOf(bill, FallbackName[key]))
    ELSE costs

\* The four blocks of map_costs_to_resources; the result maps a discovery
\* key to its cost map and has no entry for a key that was skipped.
map_costs_to_resources(res, bill, lookup) ==
    LET ec2 == ResourcesGet(res, "EC2")
        rds == ResourcesGet(res, "RDS")
        s3 == ResourcesGet(res, "S3")
        eks == ResourcesGet(res, "EKS")
        keys == {k \in {"EC2", "RDS", "S3"} : ResourcesGet(res, k) # <<>>} \cup
                (IF eks # <<>> /\ HasName(bill, FallbackName["EKS"]) THEN {"EKS"} ELSE {})
    IN [k \in keys |->
          CASE k = "EC2" -> WithFallback(get_ec2_instance_costs(ec2, lookup), ec2, "EC2", bill)
            [] k = "RDS" -> WithFallback(get_rds_instance_costs(rds, lookup), rds, "RDS", bill)
            [] k = "S3" -> WithFallback(get_s3_bucket_costs(s3, lookup), s3, "S3", bill)
            [] k = "EKS" -> EvenSplit(eks, CostOf(bill, FallbackName["EKS"]))]

(***************************************************************************)
(* SpecCost: map_costs_to_resources called on the resources of one         *)
(* category, a bill and a behaviour of the per-resource billing queries;   *)
(* get_service_cost_distribution called on a total and a count.            *)
(***************************************************************************)
CostKeys == {"EC2", "RDS", "S3", "EKS"}

\* Known identifiers: "b" is part of "ab" and of "bc".
IdPool == {<<"a", "b">>, <<"b", "c">>, <<"b">>, <<"d">>}

\* Identifiers in billing rows: a decorated "ab", a partial one, "bc"
\* itself, an unrelated one.
RawIds == {<<"x", "a", "b">>, <<"a">>, <<"b", "c">>, <<"z">>}

\* Service totals: 90 splits evenly in three, 100 does not.
ServiceTotals == {90, 100}

\* The billing names of a discovery key, the fallback name first.
NamesOfKey(key) ==
    CASE key = "EC2" -> <<"Amazon Elastic Compute Cloud - Compute", "EC2 - Other">>
      [] key = "EKS" -> <<"Amazon Elastic Container Service for Kubernetes", "Amazon EKS">>
      [] key = "RDS" -> <<"Amazon Relational Database Service">>
      [] key = "S3" -> <<"Amazon Simple Storage Service">>

\* Rows of one response; the amount of a row is its position.
RowSeqs(n) == {[i \in 1..n |-> [resource_id |-> rs[i], amount |-> i]] : rs \in [1..n -> RawIds]}

Quiet == [ok |-> TRUE, rows |-> <<>>]
Raising == [ok |-> FALSE, rows |-> <<>>]

\* Behaviours of the per-resource queries with at most MaxRows rows in all.
Lookups(key) ==
    IF key = "EKS" THEN {[r \in {"us-east-1", "us-west-2", "global"} |-> Quiet]}
    ELSE IF key = "S3"
    THEN {[r \in {"us-east-1", "us-west-2", "global"} |->
              IF r = "global" THEN g ELSE Quiet] :
              g \in {Raising} \cup {[ok |-> TRUE, rows |-> rows] :
                        rows \in UNION {RowSeqs(n) : n \in 0..MaxRows}}}
    ELSE UNION {UNION {
            {[r \in {"us-east-1", "us-west-2", "global"} |->
                 IF r = "us-east-1" THEN a ELSE IF r = "us-west-2" THEN b ELSE Quiet] :
                 a \in {Raising} \cup {[ok |-> TRUE, rows |-> rows] : rows \in RowSeqs(n)},
                 b \in {Raising} \cup {[ok |-> TRUE, rows |-> rows] : rows \in RowSeqs(m)}} :
            m \in 0..(MaxRows - n)} : n \in 0..MaxRows}

InitCost ==
    /\ pc = "call"
    /\ RunIdle
    /\ returned = <<>>
    /\ \/ \E key \in CostKeys, n \in 0..MaxResources :
            \E ids \in InjSeqs(IdPool, n), split \in 0..n, lookup \in Lookups(key),
               names \in SUBSET Range(NamesOfKey(key)), total \in ServiceTotals :
               args = [fn |-> "map_costs_to_resources",
                       key |-> key,
                       resources |-> <<[key |-> key,
                                        items |-> [i \in 1..n |->
                                            [id |-> ids[i],
                                             region |-> IF i <= split THEN Regions[1]
                                                                      ELSE Regions[2]]]]>>,
                       costs_by_service |->
                           SortedByCostDesc(
                               IF NamesOfKey(key)[1] \in names
                               THEN <<[name |-> NamesOfKey(key)[1], cost |-> total]>>
                               ELSE <<>>) \o
                               (IF Len(NamesOfKey(key)) > 1 /\ NamesOfKey(key)[2] \in names
                                THEN <<[name |-> NamesOfKey(key)[2], cost |-> 90]>>
                                ELSE <<>>),
                       lookup |-> lookup]
       \/ \E total \in ServiceTotals \cup (1..MaxAmount), n \in 0..MaxResources :
            args = [fn |-> "get_service_cost_distribution",
                    total_cost |-> total, resource_count |-> n]

CallMapCosts ==
    /\ pc = "call"
    /\ args.fn = "map_costs_to_resources"
    /\ returned' = <<map_costs_to_resources(args.resources, args.costs_by_service, args.lookup)>>
    /\ pc' = "returned"
    /\ UNCHANGED <<args, runLocals>>

CallDistribution ==
    /\ pc = "call"
    /\ args.fn = "get_service_cost_distribution"
    /\ returned' = <<get_service_cost_distribution(args.total_cost, args.resource_count)>>
    /\ pc' = "returned"
    /\ UNCHANGED <<args, runLocals>>

NextCost == CallMapCosts \/ CallDistribution

SpecCost == InitCost /\ [][NextCost]_vars

(***************************************************************************)
(* Claims on cost attribution (SpecCost).                                  *)
(***************************************************************************)
Costed == args.fn = "map_costs_to_resources" /\ pc = "returned"
Distributed == args.fn = "get_service_cost_distribution" /\ pc = "returned"
CostItems == args.resources[1].items
CostIds == {CostItems[i].id : i \in 1..Len(CostItems)}
CostMap == IF args.key \in DOMAIN returned[1] THEN returned[1][args.key] ELSE <<>>

RECURSIVE RatSum(_, _)
RatSum(f, S) ==
    IF S = {} THEN Rat(0, 1)
    ELSE LET x == CHOOSE x \in S : TRUE IN RatAdd(f[x], RatSum(f, S \ {x}))

\* No row of a query that answered matches a resource the query was for.
NoGranularMatch ==
    CASE args.key = "EKS" -> TRUE
      [] args.key = "S3" ->
            \/ ~args.lookup["global"].ok
            \/ \A p \in 1..Len(args.lookup["global"].rows), i \in 1..Len(CostItems) :
                  ~MatchS3(CostItems[i].id, args.lookup["global"].rows[p].resource_id)
      [] OTHER ->
            \A r \in Range(Regions) :
                \/ ~args.lookup[r].ok
                \/ \A p \in 1..Len(args.lookup[r].rows), i \in 1..Len(CostItems) :
                      CostItems[i].region = r =>
                          ~MatchEither(CostItems[i].id, args.lookup[r].rows[p].resource_id)

\* The service-level total handed to the fallback is on the bill.
BillingTotalPresent == HasName(args.costs_by_service, FallbackName[args.key])
BillingTotal == CostOf(args.costs_by_service, FallbackName[args.key])

\* C8: with N > 0 resources, no granular match and a service-level total,
\* the fallback costs are all equal and sum to the total; with N = 0 the
\* result is empty.  The same for get_service_cost_distribution.
C8_FallbackSum ==
    /\ Costed =>
         /\ Len(CostItems) = 0 => DOMAIN CostMap = {}
         /\ (Len(CostItems) > 0 /\ NoGranularMatch /\ BillingTotalPresent) =>
               /\ DOMAIN CostMap = CostIds
               /\ \A x, y \in CostIds : RatEq(CostMap[x], CostMap[y])
               /\ RatEq(RatSum(CostMap, CostIds), Rat(BillingTotal, 1))
    /\ Distributed =>
         /\ args.resource_count = 0 => DOMAIN returned[1] = {}
         /\ args.resource_count > 0 =>
               /\ Cardinality(DOMAIN returned[1]) = args.resource_count
               /\ \A x, y \in DOMAIN returned[1] : RatEq(returned[1][x], returned[1][y])
               /\ RatEq(RatSum(returned[1], DOMAIN returned[1]), Rat(args.total_cost, 1))

\* Three resources whose queries all raise share a total of 100.
C8_Witness ==
    /\ Costed
    /\ Len(CostItems) = 3
    /\ \A r \in Range(Regions) : ~args.lookup[r].ok
    /\ BillingTotalPresent /\ BillingTotal = 100
    /\ DOMAIN CostMap = CostIds

\* The bill has a line item that the classifier maps to the category.
BilledByClassifier ==
    \E i \in 1..Len(args.costs_by_service) :
        /\ args.costs_by_service[i].name \notin non_resource_services
        /\ ServiceMapGet(args.costs_by_service[i].name) = args.key

\* C9: when the granular lookup of a category yields nothing and the bill
\* has a line item the classifier maps to the category, every discovered
\* resource is attributed billed amount / count (3 RDS resources and 90
\* give 30 each).
C9_FallbackWheneverBilled ==
    (Costed /\ args.key \in {"EC2", "RDS", "S3"} /\ Len(CostItems) > 0
        /\ NoGranularMatch /\ BilledByClassifier) =>
        \A id \in CostIds :
            /\ id \in DOMAIN CostMap
            /\ \E i \in 1..Len(args.costs_by_service) :
                  /\ ServiceMapGet(args.costs_by_service[i].name) = args.key
                  /\ RatEq(CostMap[id],
                           Rat(args.costs_by_service[i].cost, Len(CostItems)))

\* Scenario D of the specification: the part of C9 the code satisfies.
ScenarioD_Holds ==
    (Costed /\ args.key = "RDS" /\ Len(CostItems) = 3 /\ BillingTotalPresent
        /\ BillingTotal = 90 /\ \A r \in Range(Regions) : ~args.lookup[r].ok) =>
        \A id \in CostIds : id \in DOMAIN CostMap /\ RatEq(CostMap[id], Rat(30, 1))

\* The queries of the call: a region (or "global" for S3), the known ids the
\* query's rows are matched against, and its rows when it answered.
Scopes == IF args.key = "S3" THEN {"global"} ELSE Range(Regions)
ScopeIds(r) ==
    IF args.key = "S3" THEN [i \in 1..Len(CostItems) |-> CostItems[i].id]
    ELSE RegionInstances(CostItems, r)
ScopeRows(r) == IF args.lookup[r].ok THEN args.lookup[r].rows ELSE <<>>
Granular == Costed /\ args.key \in {"EC2", "RDS", "S3"}

\* The rows of scope r the code credits to id.
CreditedRows(r, id) ==
    {p \in 1..Len(ScopeRows(r)) :
        LET hit == FirstMatch(ScopeIds(r), ScopeRows(r)[p].resource_id, args.key = "S3")
        IN hit # None /\ hit = id}
MinOf(S) == CHOOSE x \in S : \A y \in S : x <= y

\* C19: when several rows are credited to one id, its attributed cost is the
\* amount of the first of them in result order.
C19_FirstRowWins ==
    Granular =>
        \A r \in Scopes : \A id \in Range(ScopeIds(r)) :
            CreditedRows(r, id) # {} =>
                /\ id \in DOMAIN CostMap
                /\ RatEq(CostMap[id],
                         Rat(ScopeRows(r)[MinOf(CreditedRows(r, id))].amount, 1))

\* The first known id, in list order, that contains raw or is contained in it.
Containing(ids, raw) == {i \in 1..Len(ids) : MatchEither(ids[i], raw)}
ExpectedCredit(r) ==
    {ScopeIds(r)[MinOf(Containing(ScopeIds(r), ScopeRows(r)[p].resource_id))] :
        p \in {q \in 1..Len(ScopeRows(r)) :
                  Containing(ScopeIds(r), ScopeRows(r)[q].resource_id) # {}}}
ExpectedCredited == UNION {ExpectedCredit(r) : r \in Scopes}

\* C20: a row is matched to a known id exactly when one identifier contains
\* the other, and is credited to the first such id in list order: whenever
\* some row matches, the ids with a granular cost are exactly those ids.
C20_ContainmentEitherWay ==
    (Granular /\ ExpectedCredited # {}) => DOMAIN CostMap = ExpectedCredited

\* C20 for compute and relational databases only.
C20_ComputeAndDatabase ==
    (Granular /\ args.key # "S3" /\ ExpectedCredited # {}) =>
        DOMAIN CostMap = ExpectedCredited

\* The known ids some row of a query that answered is credited to.
Credited ==
    {id \in CostIds : \E r \in Scopes : id \in Range(ScopeIds(r)) /\ CreditedRows(r, id) # {}}
Measured(id) ==
    \E r \in Scopes : \E p \in CreditedRows(r, id) :
        RatEq(CostMap[id], Rat(ScopeRows(r)[p].amount, 1))
Estimated(id) == RatEq(CostMap[id], Rat(BillingTotal, Len(CostItems)))

\* C29: the cost map of a category holds either granular amounts only or
\* the uniform split only; when the granular lookup credits some resource,
\* every resource it does not credit has no entry.
C29_NeverMixed ==
    Granular =>
        /\ \/ /\ DOMAIN CostMap = Credited
              /\ \A id \in DOMAIN CostMap : Measured(id)
           \/ /\ Credited = {}
              /\ BillingTotalPresent
              /\ DOMAIN CostMap = CostIds
              /\ \A id \in DOMAIN CostMap : Estimated(id)
        /\ Credited # {} => \A id \in CostIds \ Credited : id \notin DOMAIN CostMap

\* The query of one region raised, the query of the other credits a
\* resource, the service total is on the bill: the resource of the raising
\* region has no entry.
C29_Witness ==
    /\ Granular
    /\ args.key = "EC2"
    /\ BillingTotalPresent
    /\ Credited # {}
    /\ DOMAIN CostMap = Credited
    /\ \E i \in 1..Len(CostItems) :
           /\ ~args.lookup[CostItems[i].region].ok
           /\ CostItems[i].id \notin DOMAIN CostMap

(***************************************************************************)
(* instance_analyzer.py.  The catalog in table order; memory in quarter    *)
(* GiB and the hourly price in 1/10000 dollar, so that both are integers.  *)
(* Utilisation is a whole percentage.                                      *)
(***************************************************************************)
INSTANCE_SPECS ==
    <<
      [name |-> "t2.micro", vCPU |-> 1, Memory4 |-> 4, Price |-> 116],
      [name |-> "t2.small", vCPU |-> 1, Memory4 |-> 8, Price |-> 230],
      [name |-> "t2.medium", vCPU |-> 2, Memory4 |-> 16, Price |-> 464],
      [name |-> "t2.large", vCPU |-> 2, Memory4 |-> 32, Price |-> 928],
      [name |-> "t2.xlarge", vCPU |-> 4, Memory4 |-> 64, Price |-> 1856],
      [name |-> "t2.2xlarge", vCPU |-> 8, Memory4 |-> 128, Price |-> 3712],
      [name |-> "t3.micro", vCPU |-> 2, Memory4 |-> 4, Price |-> 104],
      [name |-> "t3.small", vCPU |-> 2, Memory4 |-> 8, Price |-> 208],
      [name |-> "t3.medium", vCPU |-> 2, Memory4 |-> 16, Price |-> 416],
      [name |-> "t3.large", vCPU |-> 2, Memory4 |-> 32, Price |-> 832],
      [name |-> "t3.xlarge", vCPU |-> 4, Memory4 |-> 64, Price |-> 1664],
      [name |-> "t3.2xlarge", vCPU |-> 8, Memory4 |-> 128, Price |-> 3328],
      [name |-> "m5.large", vCPU |-> 2, Memory4 |-> 32, Price |-> 960],
      [name |-> "m5.xlarge", vCPU |-> 4, Memory4 |-> 64, Price |-> 1920],
      [name |-> "m5.2xlarge", vCPU |-> 8, Memory4 |-> 128, Price |-> 3840],
      [name |-> "m5.4xlarge", vCPU |-> 16, Memory4 |-> 256, Price |-> 7680],
      [name |-> "m5a.large", vCPU |-> 2, Memory4 |-> 32, Price |-> 864],
      [name |-> "m5a.xlarge", vCPU |-> 4, Memory4 |-> 64, Price |-> 1728],
      [name |-> "m5a.2xlarge", vCPU |-> 8, Memory4 |-> 128, Price |-> 3456],
      [name |-> "c5.large", vCPU |-> 2, Memory4 |-> 16, Price |-> 850],
      [name |-> "c5.xlarge", vCPU |-> 4, Memory4 |-> 32, Price |-> 1700],
      [name |-> "c5.2xlarge", vCPU |-> 8, Memory4 |-> 64, Price |-> 3400],
      [name |-> "c5.4xlarge", vCPU |-> 16, Memory4 |-> 128, Price |-> 6800],
      [name |-> "r5.large", vCPU |-> 2, Memory4 |-> 64, Price |-> 1260],
      [name |-> "r5.xlarge", vCPU |-> 4, Memory4 |-> 128, Price |-> 2520],
      [name |-> "r5.2xlarge", vCPU |-> 8, Memory4 |-> 256, Price |-> 5040],
      [name |-> "r5.4xlarge", vCPU |-> 16, Memory4 |-> 512, Price |-> 10080],
      [name |-> "i3.large", vCPU |-> 2, Memory4 |-> 61, Price |-> 1560],
      [name |-> "i3.xlarge", vCPU |-> 4, Memory4 |-> 122, Price |-> 3120],
      [name |-> "i3.2xlarge", vCPU |-> 8, Memory4 |-> 244, Price |-> 6240]
    >>

HoursPerMonth == 730

Max2(a, b) == IF a >= b THEN a ELSE b

InCatalog(t) == \E i \in 1..Len(INSTANCE_SPECS) : INSTANCE_SPECS[i].name = t

\* get_instance_specs for a type of the catalog.
get_instance_specs(t) ==
    INSTANCE_SPECS[CHOOSE i \in 1..Len(INSTANCE_SPECS) : INSTANCE_SPECS[i].name = t]

\* Mutant: no 20% headroom.
required_vcpu_NoHeadroom(current_vcpu, cpu_usage_max) ==
    Max2(1, (cpu_usage_max * current_vcpu) \div 100)

\* Mutant: the headroom is taken over the idle share of the CPU.
required_vcpu_FromIdle(current_vcpu, cpu_usage_max) ==
    Max2(1, ((100 - cpu_usage_max) * current_vcpu * 12) \div 1000)

\* max(1, int((cpu_usage_max / 100) * current_vcpu * 1.2))
required_vcpu(current_vcpu, cpu_usage_max) ==
    Max2(1, (cpu_usage_max * current_vcpu * 12) \div 1000)

\* Mutant: without memory telemetry half the current memory is required.
required_memory4_Halved(current_memory4, memory_usage_max) ==
    IF memory_usage_max = NoMemory \/ memory_usage_max = 0 THEN current_memory4 \div 2
    ELSE 4 * Max2(1, (memory_usage_max * current_memory4 * 12) \div 4000)

\* required_memory in quarter GiB: the current memory unless
\* memory_usage_max is truthy (neither None nor 0).
required_memory4(current_memory4, memory_usage_max) ==
    IF memory_usage_max = NoMemory \/ memory_usage_max = 0 THEN current_memory4
    ELSE 4 * Max2(1, (memory_usage_max * current_memory4 * 12) \div 4000)

\* Mutant: the Score is the savings percentage alone.
ScoreNum_SavingsOnly(specs, current_price, req_vcpu) ==
    IF current_price > 0
    THEN 2 * (current_price - specs.Price) * specs.vCPU
    ELSE 0

\* Score * vCPU * current price / 50: the scores of one call compare as
\* ScoreNum(a) / a.vCPU against ScoreNum(b) / b.vCPU.
ScoreNum(specs, current_price, req_vcpu) ==
    IF current_price > 0
    THEN 2 * (current_price - specs.Price) * specs.vCPU + req_vcpu * current_price
    ELSE req_vcpu

\* a has a strictly higher Score than b.
Better(a, b, current_price, req_vcpu) ==
    ScoreNum(a, current_price, req_vcpu) * b.vCPU >
        ScoreNum(b, current_price, req_vcpu) * a.vCPU

\* recommendations.sort(key=Score, reverse=True)[0]: the first candidate in
\* catalog order among those of maximal score.
RECURSIVE BestOf(_, _, _, _, _, _)
BestOf(i, best, current_price, req_vcpu, req_mem4, catalog) ==
    IF i > Len(catalog) THEN best
    ELSE LET specs == catalog[i]
             ok == specs.vCPU >= req_vcpu /\ specs.Memory4 >= req_mem4
         IN BestOf(i + 1,
                   IF ok /\ (best = 0 \/ Better(specs, catalog[best], current_price, req_vcpu))
                   THEN i ELSE best,
                   current_price, req_vcpu, req_mem4, catalog)

\* Mutant: the full current price is reported as saved.
NoRecommendation_FullSavings == [type |-> None, savings |-> HoursPerMonth, percent |-> Rat(100, 1)]

NoRecommendation == [type |-> None, savings |-> 0, percent |-> Rat(0, 1)]

\* Returns (type, savings, savings_percent); savings in 1/10000 dollar.
recommend_instance_type(current_type, cpu_usage_avg, cpu_usage_max, memory_usage_max) ==
    IF ~InCatalog(current_type) THEN NoRecommendation
    ELSE LET current_specs == get_instance_specs(current_type)
             req_vcpu == required_vcpu(current_specs.vCPU, cpu_usage_max)
             req_mem4 == required_memory4(current_specs.Memory4, memory_usage_max)
             best == BestOf(1, 0, current_specs.Price, req_vcpu, req_mem4, INSTANCE_SPECS)
         IN IF best = 0 THEN NoRecommendation
            ELSE [type |-> INSTANCE_SPECS[best].name,
                  savings |-> (current_specs.Price - INSTANCE_SPECS[best].Price) * HoursPerMonth,
                  percent |-> IF current_specs.Price > 0
                              THEN Rat(100 * (current_specs.Price - INSTANCE_SPECS[best].Price),
                                       current_specs.Price)
                              ELSE Rat(0, 1)]

(***************************************************************************)
(* SpecSizing: recommend_instance_type called twice for one instance, the  *)
(* second time with a cpu_usage_max that is not lower.                     *)
(***************************************************************************)
CurrentTypes == {INSTANCE_SPECS[i].name : i \in 1..Len(INSTANCE_SPECS)} \cup {"x1.unknown"}

\* How far the second call's cpu_usage_max lies above the first.
CpuSteps == {1, 7, 30}

\* memory_usage_max: not supplied, 0, or a percentage.
MemoryChoices == {NoMemory, 0, 50}

InitSizing ==
    /\ pc = "call"
    /\ RunIdle
    /\ returned = <<>>
    /\ \E t \in CurrentTypes, lo \in 0..MaxCpu, d \in CpuSteps, m \in MemoryChoices :
        \E avg \in {0, lo} :
          args = [fn |-> "recommend_instance_type",
                  current_type |-> t,
                  cpu_usage_avg |-> avg,
                  cpu_usage_max |-> <<lo, IF lo + d > MaxCpu THEN MaxCpu ELSE lo + d>>,
                  memory_usage_max |-> m]

CallRecommend ==
    /\ pc \in {"call", "returned"}
    /\ args.fn = "recommend_instance_type"
    /\ Len(returned) < Len(args.cpu_usage_max)
    /\ returned' = Append(returned,
           recommend_instance_type(args.current_type, args.cpu_usage_avg,
                                   args.cpu_usage_max[Len(returned) + 1],
                                   args.memory_usage_max))
    /\ pc' = "returned"
    /\ UNCHANGED <<args, runLocals>>

NextSizing == CallRecommend

SpecSizing == InitSizing /\ [][NextSizing]_vars

(***************************************************************************)
(* Claims on the sizing advisor (SpecSizing).                              *)
(***************************************************************************)
SizedTwice == args.fn = "recommend_instance_type" /\ Len(returned) = 2
VCPUOf(t) == get_instance_specs(t).vCPU

\* C10: raising cpuMax, all else fixed, never lowers the required vCPU and
\* never leads to a recommended tier with fewer vCPU.
C10_SizingMonotone ==
    (SizedTwice /\ InCatalog(args.current_type)) =>
        /\ required_vcpu(VCPUOf(args.current_type), args.cpu_usage_max[1]) <=
               required_vcpu(VCPUOf(args.current_type), args.cpu_usage_max[2])
        /\ (returned[1].type # None /\ returned[2].type # None) =>
               VCPUOf(returned[1].type) <= VCPUOf(returned[2].type)

\* The higher cpuMax moved the recommendation to a larger tier.
C10_Witness ==
    /\ SizedTwice
    /\ returned[1].type # None /\ returned[2].type # None
    /\ VCPUOf(returned[1].type) < VCPUOf(returned[2].type)

\* The requirements of call k and the catalog tiers that meet them.
Sized(k) == args.fn = "recommend_instance_type" /\ k <= Len(returned)
RequiredVCPU(k) == required_vcpu(VCPUOf(args.current_type), args.cpu_usage_max[k])
RequiredMemory4 ==
    required_memory4(get_instance_specs(args.current_type).Memory4, args.memory_usage_max)
Sufficient(k) ==
    {i \in 1..Len(INSTANCE_SPECS) :
        /\ INSTANCE_SPECS[i].vCPU >= RequiredVCPU(k)
        /\ INSTANCE_SPECS[i].Memory4 >= RequiredMemory4}
IsNoRecommendation(r) ==
    r.type = None /\ r.savings = 0 /\ RatEq(r.percent, Rat(0, 1))

\* C11: a current tier outside the catalog, or requirements no catalog tier
\* meets, give (None, 0, 0).
C11_NoCandidate ==
    \A k \in 1..2 :
        (Sized(k) /\ (~InCatalog(args.current_type) \/ Sufficient(k) = {})) =>
            IsNoRecommendation(returned[k])

\* A 16-vCPU tier of the catalog at cpuMax = 100: 19 vCPU required.
C11_Witness ==
    /\ Sized(2)
    /\ InCatalog(args.current_type)
    /\ args.cpu_usage_max[2] = 100
    /\ Sufficient(2) = {}
    /\ IsNoRecommendation(returned[2])

\* The catalog has a strictly cheaper tier that meets the requirements of call k.
CheaperSufficient(k) ==
    \E i \in Sufficient(k) :
        INSTANCE_SPECS[i].Price < get_instance_specs(args.current_type).Price

\* C12: whenever a strictly cheaper sufficient tier exists, the recommended
\* tier has no more vCPU than the current one and positive savings.
C12_CheaperTierRecommended ==
    \A k \in 1..2 :
        (Sized(k) /\ InCatalog(args.current_type) /\ CheaperSufficient(k)) =>
            /\ returned[k].type # None
            /\ VCPUOf(returned[k].type) <= VCPUOf(args.current_type)
            /\ returned[k].savings > 0

\* C12, the worked example: 4 vCPU, 16 GiB, $0.1664/h, cpuMax = 15, no memory
\* telemetry.
C12_Example ==
    (/\ Sized(1)
     /\ args.current_type = "t3.xlarge"
     /\ args.cpu_usage_max[1] = 15
     /\ args.memory_usage_max = NoMemory) =>
        /\ returned[1].type # None
        /\ VCPUOf(returned[1].type) <= 4
        /\ returned[1].savings > 0

\* C21: the required vCPU of a call is max(1, floor(cpuMax/100 * vCPU * 1.2))
\* of the current tier, and the result of the call does not depend on cpuAvg.
C21_RequiredVCPU ==
    \A k \in 1..2 :
        (Sized(k) /\ InCatalog(args.current_type)) =>
            LET r == RequiredVCPU(k)
                n == args.cpu_usage_max[k] * VCPUOf(args.current_type) * 12
            IN /\ r >= 1
               /\ r = 1 \/ r * 1000 <= n
               /\ n < (r + 1) * 1000
               /\ \A avg \in {(args.cpu_usage_avg + 1) % (MaxCpu + 1)} :
                      returned[k] = recommend_instance_type(args.current_type, avg,
                                        args.cpu_usage_max[k], args.memory_usage_max)

\* A call with a positive cpuAvg whose required vCPU is above the floor of 1.
C21_Witness ==
    /\ Sized(2)
    /\ InCatalog(args.current_type)
    /\ args.cpu_usage_avg > 0
    /\ RequiredVCPU(2) > 1
    /\ returned[2].type # None

CurrentMemory4 == get_instance_specs(args.current_type).Memory4
Memory4Of(t) == get_instance_specs(t).Memory4

\* C22: a returned tier has at least the required vCPU and the required
\* memory; without memMax the required memory is the current tier's, so the
\* returned tier has no less memory than the current one.
C22_MeetsRequirements ==
    \A k \in 1..2 :
        (Sized(k) /\ InCatalog(args.current_type) /\ returned[k].type # None) =>
            /\ VCPUOf(returned[k].type) >= RequiredVCPU(k)
            /\ Memory4Of(returned[k].type) >= RequiredMemory4
            /\ args.memory_usage_max = NoMemory =>
                   /\ RequiredMemory4 = CurrentMemory4
                   /\ Memory4Of(returned[k].type) >= CurrentMemory4

\* Without memory telemetry a tier with fewer vCPU than the current one is
\* returned; it has the current tier's memory or more.
C22_Witness ==
    /\ Sized(1)
    /\ InCatalog(args.current_type)
    /\ args.memory_usage_max = NoMemory
    /\ returned[1].type # None
    /\ returned[1].type # args.current_type
    /\ VCPUOf(returned[1].type) < VCPUOf(args.current_type)
    /\ Memory4Of(returned[1].type) >= CurrentMemory4

\* score(a) * P * a.vCPU * b.vCPU for tiers a, b of the catalog, where
\* score = savingsPercent + 0.5 * (requiredVCPU / vCPU * 100), P > 0 is the
\* current price and R the required vCPU.
ScoreTimes(a, b, P, R) ==
    100 * (P - a.Price) * a.vCPU * b.vCPU + 50 * R * P * b.vCPU
IndexOf(t) == CHOOSE i \in 1..Len(INSTANCE_SPECS) : INSTANCE_SPECS[i].name = t

\* C23: the returned tier has the maximal score among the sufficient tiers,
\* and comes first in catalog order among those of equal score.
C23_MaximalScore ==
    \A k \in 1..2 :
        (Sized(k) /\ InCatalog(args.current_type) /\ Sufficient(k) # {}) =>
            /\ returned[k].type # None
            /\ LET b == IndexOf(returned[k].type)
                   best == INSTANCE_SPECS[b]
                   P == get_instance_specs(args.current_type).Price
                   R == RequiredVCPU(k)
                   candidates == Sufficient(k)
               IN /\ b \in candidates
                  /\ \A j \in candidates :
                         LET mine == ScoreTimes(best, INSTANCE_SPECS[j], P, R)
                             other == ScoreTimes(INSTANCE_SPECS[j], best, P, R)
                         IN mine >= other /\ (mine = other => b <= j)

\* The returned tier is not the cheapest sufficient tier: a cheaper one has
\* a strictly lower score.
C23_Witness ==
    /\ Sized(1)
    /\ InCatalog(args.current_type)
    /\ returned[1].type # None
    /\ \E j \in Sufficient(1) :
           /\ INSTANCE_SPECS[j].Price < INSTANCE_SPECS[IndexOf(returned[1].type)].Price
           /\ ScoreTimes(INSTANCE_SPECS[IndexOf(returned[1].type)], INSTANCE_SPECS[j],
                         get_instance_specs(args.current_type).Price, RequiredVCPU(1))
                  > ScoreTimes(INSTANCE_SPECS[j], INSTANCE_SPECS[IndexOf(returned[1].type)],
                               get_instance_specs(args.current_type).Price, RequiredVCPU(1))

\* C24: a returned tier with negative savings has at least as many vCPU as
\* the current tier.
C24_NegativeSavingsIsUpgrade ==
    \A k \in 1..2 :
        (Sized(k) /\ InCatalog(args.current_type)
            /\ returned[k].type # None /\ returned[k].savings < 0) =>
            VCPUOf(returned[k].type) >= VCPUOf(args.current_type)

(***************************************************************************)
(* enhanced_recommendations.py.  Amounts of money are integers in 1/1000   *)
(* dollar; NoneCost stands for a cost that is not a number (Python None).  *)
(* A dict is a function on its keys, {} is the function on no key.         *)
(***************************************************************************)
NoneCost == -1

EmptyDict == <<>>

\* d.get(k, default)
DictGet(d, k, default) == IF k \in DOMAIN d THEN d[k] ELSE default

Pad2(n) == IF n < 10 THEN "0" \o ToString(n) ELSE ToString(n)

\* f'{x:.2f}' for x = num / den >= 0, rounded to the nearest cent.
Fixed2f(num, den) ==
    LET cents == (200 * num + den) \div (2 * den)
    IN ToString(cents \div 100) \o "." \o Pad2(cents % 100)

\* f'{x:.1f}' for x = num / den >= 0, rounded to the nearest tenth.
Fixed1f(num, den) ==
    LET tenths == (20 * num + den) \div (2 * den)
    IN ToString(tenths \div 10) \o "." \o ToString(tenths % 10)

Finding(id, type, severity, title, potential_savings) ==
    [resource_id |-> id, resource_type |-> type, severity |-> severity,
     title |-> title, potential_savings |-> potential_savings]

\* Mutant: an instance without analysis is read as advised to downsize.
EmptyAnalysis_Downsize ==
    [RecommendedType |-> "t3.large", PotentialSavings |-> 607360,
     SavingsPercent |-> Rat(83200, 1664)]

\* analyses.get(instance_id, {}) read through .get('RecommendedType'),
\* .get('PotentialSavings', 0) and .get('SavingsPercent', 0).  Savings of an
\* analysis are in 1/10000 dollar, as the catalog prices; the percentage is
\* an exact rational.
EmptyAnalysis ==
    [RecommendedType |-> None, PotentialSavings |-> 0, SavingsPercent |-> Rat(0, 1)]

\* The findings of one instance, in the order of the four rules, as far as
\* the rules fire; every rule that fires formats the cost.
EC2Findings(instance, metrics, analysis, cost) ==
    LET id == instance.InstanceId
        monitoring ==
            IF ~DictGet(metrics, "monitoring_enabled", FALSE)
            THEN <<Finding(id, "EC2", "HIGH",
                           "EC2 Instance " \o id \o " - CloudWatch Monitoring Not Enabled",
                           "Unknown (cannot optimize without metrics)")>>
            ELSE <<>>
        agent ==
            IF ~DictGet(metrics, "cw_agent_installed", FALSE) /\ instance.State = "running"
            THEN <<Finding(id, "EC2", "MEDIUM",
                           "EC2 Instance " \o id \o " - CloudWatch Agent Not Installed",
                           "Enables accurate optimization recommendations")>>
            ELSE <<>>
        sizing ==
            IF analysis.RecommendedType # None
               /\ analysis.RecommendedType # instance.InstanceType
            THEN IF analysis.PotentialSavings > 0
                 THEN <<Finding(id, "EC2", "HIGH",
                                "EC2 Instance " \o id \o " - Right-Sizing Opportunity",
                                "$" \o Fixed2f(analysis.PotentialSavings, 10000) \o "/month ("
                                    \o Fixed1f(analysis.SavingsPercent.num,
                                               analysis.SavingsPercent.den)
                                    \o "% reduction)")>>
                 ELSE IF analysis.PotentialSavings < 0
                 THEN <<Finding(id, "EC2", "MEDIUM",
                                "EC2 Instance " \o id \o " - Performance Risk",
                                "N/A (performance improvement)")>>
                 ELSE <<>>
            ELSE <<>>
        stopped ==
            IF instance.State = "stopped" /\ cost > 0
            THEN <<Finding(id, "EC2", "HIGH",
                           "EC2 Instance " \o id \o " - Stopped but Incurring Costs",
                           "$" \o Fixed2f(cost, 1000) \o "/month")>>
            ELSE <<>>
    IN monitoring \o agent \o sizing \o stopped

\* f'{cost:.2f}' in a rule that fires, or `cost > 0` for a stopped instance,
\* raises TypeError when the cost is not a number.
EC2Raises(instance, metrics, analysis, cost) ==
    /\ cost = NoneCost
    /\ \/ EC2Findings(instance, metrics, analysis, 0) # <<>>
       \/ instance.State = "stopped"

RDSFindings(db_instance, cost) ==
    IF db_instance.MultiAZ /\ db_instance.Status # "available"
    THEN <<Finding(db_instance.DBInstanceIdentifier, "RDS", "MEDIUM",
                   "RDS Instance " \o db_instance.DBInstanceIdentifier
                       \o " - Multi-AZ for Non-Production",
                   "$" \o Fixed2f(cost, 2000) \o "/month (50% reduction)")>>
    ELSE <<>>

RDSRaises(db_instance, cost) ==
    cost = NoneCost /\ RDSFindings(db_instance, 0) # <<>>

\* size_gb is the bucket's Size in whole GiB.
S3Findings(bucket, cost) ==
    IF bucket.StorageClass = {"STANDARD"} /\ bucket.size_gb > 100
    THEN <<Finding(bucket.BucketName, "S3", "MEDIUM",
                   "S3 Bucket " \o bucket.BucketName \o " - All Data in Standard Storage",
                   "$" \o Fixed2f(2 * cost, 5000)
                       \o "/month (40% reduction for infrequent access)")>>
    ELSE <<>>

S3Raises(bucket, cost) ==
    cost = NoneCost /\ S3Findings(bucket, 0) # <<>>

\* resource_costs.get(key, {}).get(id, 0)
CostGet(resource_costs, key, id) ==
    DictGet(DictGet(resource_costs, key, EmptyDict), id, 0)

\* resources.get(key): the list, empty when the key is absent.
ListGet(res, key) == DictGet(res, key, <<>>)

Raised == [raised |-> TRUE, recommendations |-> <<>>]

\* for instance in resources['EC2']: ... ; an exception leaves the function.
RECURSIVE EC2Loop(_, _, _, _, _)
EC2Loop(instances, metrics_data, resource_costs, analyses, acc) ==
    IF instances = <<>> THEN acc
    ELSE LET instance == Head(instances)
             analysis == DictGet(analyses, instance.InstanceId, EmptyAnalysis)
             metrics == DictGet(metrics_data, instance.InstanceId, EmptyDict)
             cost == CostGet(resource_costs, "EC2", instance.InstanceId)
         IN IF EC2Raises(instance, metrics, analysis, cost) THEN Raised
            ELSE EC2Loop(Tail(instances), metrics_data, resource_costs, analyses,
                         [acc EXCEPT !.recommendations =
                              @ \o EC2Findings(instance, metrics, analysis, cost)])

RECURSIVE RDSLoop(_, _, _)
RDSLoop(db_instances, resource_costs, acc) ==
    IF db_instances = <<>> THEN acc
    ELSE LET db_instance == Head(db_instances)
             cost == CostGet(resource_costs, "RDS", db_instance.DBInstanceIdentifier)
         IN IF RDSRaises(db_instance, cost) THEN Raised
            ELSE RDSLoop(Tail(db_instances), resource_costs,
                         [acc EXCEPT !.recommendations = @ \o RDSFindings(db_instance, cost)])

RECURSIVE S3Loop(_, _, _)
S3Loop(buckets, resource_costs, acc) ==
    IF buckets = <<>> THEN acc
    ELSE LET bucket == Head(buckets)
             cost == CostGet(resource_costs, "S3", bucket.BucketName)
         IN IF S3Raises(bucket, cost) THEN Raised
            ELSE S3Loop(Tail(buckets), resource_costs,
                        [acc EXCEPT !.recommendations = @ \o S3Findings(bucket, cost)])

\* The three blocks in order; the EC2 block runs only when there are
\* instances and analyses is a non-empty dict.
generate_resource_recommendations(res, metrics_data, resource_costs, analyses) ==
    LET start == [raised |-> FALSE, recommendations |-> <<>>]
        ec2 == IF ListGet(res, "EC2") # <<>> /\ analyses # EmptyDict
               THEN EC2Loop(ListGet(res, "EC2"), metrics_data, resource_costs, analyses, start)
               ELSE start
        rds == IF ec2.raised THEN ec2
               ELSE RDSLoop(ListGet(res, "RDS"), resource_costs, ec2)
    IN IF rds.raised THEN rds
       ELSE S3Loop(ListGet(res, "S3"), resource_costs, rds)

(***************************************************************************)
(* SpecRules: generate_resource_recommendations called on arguments of the *)
(* shapes its callers build.                                               *)
(***************************************************************************)
InstanceIds == {"i-1", "i-2"}

States == {"running", "stopped"}

\* Attributed costs: not a number, nothing, $4.20, $1.239.
CostChoices == {NoneCost, 0, 4200, 1239}

\* Telemetry of one instance: never fetched, or fetched with its two flags.
MetricsChoices ==
    {EmptyDict} \cup
    {[monitoring_enabled |-> m, cw_agent_installed |-> a] :
        <<m, a>> \in {<<FALSE, FALSE>>, <<TRUE, FALSE>>, <<TRUE, TRUE>>}}

\* Analyses of a t3.xlarge: nothing recommended, the tier itself, a smaller
\* tier, a larger one.
AnalysisChoices ==
    {EmptyAnalysis,
     [RecommendedType |-> "t3.xlarge", PotentialSavings |-> 0, SavingsPercent |-> Rat(0, 1664)],
     [RecommendedType |-> "t3.large", PotentialSavings |-> 607360,
      SavingsPercent |-> Rat(83200, 1664)],
     [RecommendedType |-> "m5.2xlarge", PotentialSavings |-> -1588480,
      SavingsPercent |-> Rat(-217600, 1664)]}

Instance(id, state) ==
    [InstanceId |-> id, InstanceType |-> "t3.xlarge", State |-> state, Region |-> "us-east-1"]

\* The other two categories: a database and a bucket, each with one variant
\* on which its rule fires and one on which it does not.
Databases ==
    {<<>>,
     <<[DBInstanceIdentifier |-> "db-1", Status |-> "stopped", MultiAZ |-> TRUE,
        Region |-> "us-east-1"]>>,
     <<[DBInstanceIdentifier |-> "db-1", Status |-> "available", MultiAZ |-> TRUE,
        Region |-> "us-east-1"]>>}

Buckets ==
    {<<>>,
     <<[BucketName |-> "logs", size_gb |-> 200, StorageClass |-> {"STANDARD"},
        Region |-> "us-east-1"]>>,
     <<[BucketName |-> "logs", size_gb |-> 200, StorageClass |-> {"STANDARD", "GLACIER"},
        Region |-> "us-east-1"]>>}

OtherCosts == {NoneCost, 4200}

InitRules ==
    /\ pc = "call"
    /\ RunIdle
    /\ returned = <<>>
    /\ \E n \in 0..Cardinality(InstanceIds) :
         \E ids \in InjSeqs(InstanceIds, n) :
           \E st \in [Range(ids) -> States], co \in [Range(ids) -> CostChoices],
              me \in [Range(ids) -> MetricsChoices],
              known \in SUBSET Range(ids), dbs \in Databases, bks \in Buckets,
              oc \in OtherCosts :
             \E an \in [known -> AnalysisChoices] :
               args = [fn |-> "generate_resource_recommendations",
                       resources |-> [EC2 |-> [i \in 1..n |-> Instance(ids[i], st[ids[i]])],
                                      RDS |-> dbs, S3 |-> bks],
                       metrics_data |-> me,
                       resource_costs |-> [EC2 |-> co,
                                           RDS |-> [d \in {"db-1"} |-> oc],
                                           S3 |-> [b \in {"logs"} |-> 4200]],
                       analyses |-> an]

CallGenerate ==
    /\ pc = "call"
    /\ args.fn = "generate_resource_recommendations"
    /\ returned' = <<generate_resource_recommendations(
                         args.resources, args.metrics_data, args.resource_costs,
                         args.analyses)>>
    /\ pc' = "returned"
    /\ UNCHANGED <<args, runLocals>>

NextRules == CallGenerate

SpecRules == InitRules /\ [][NextRules]_vars

(***************************************************************************)
(* Claims on the recommendation engine (SpecRules).                        *)
(***************************************************************************)
Generated == args.fn = "generate_resource_recommendations" /\ Len(returned) = 1
Recs == returned[1].recommendations
IdleTitle(id) == "EC2 Instance " \o id \o " - Stopped but Incurring Costs"
IdleFindings(id) ==
    {j \in 1..Len(Recs) : Recs[j].resource_id = id /\ Recs[j].title = IdleTitle(id)}
Instances == args.resources.EC2
InstanceCost(i) == CostGet(args.resource_costs, "EC2", Instances[i].InstanceId)

\* C13: a stopped instance with attributed cost c > 0 gets exactly one
\* idle-but-billed finding, HIGH, with impact "$c/month" to two decimals
\* ("$4.20/month" for 4.20); a running instance or one with cost 0 gets none.
C13_IdleButBilled ==
    Generated =>
        \A i \in 1..Len(Instances) :
            LET id == Instances[i].InstanceId
                c == InstanceCost(i)
            IN /\ (Instances[i].State = "stopped" /\ c > 0) =>
                      /\ Cardinality(IdleFindings(id)) = 1
                      /\ \A j \in IdleFindings(id) :
                            /\ Recs[j].severity = "HIGH"
                            /\ Recs[j].potential_savings = "$" \o Fixed2f(c, 1000) \o "/month"
                            /\ c = 4200 => Recs[j].potential_savings = "$4.20/month"
               /\ (Instances[i].State = "running" \/ c = 0) => IdleFindings(id) = {}

\* Every attributed cost of the call is a number.
NumericCosts ==
    /\ \A i \in 1..Len(Instances) : InstanceCost(i) # NoneCost
    /\ \A k \in {"RDS", "S3"} : \A id \in DOMAIN args.resource_costs[k] :
           args.resource_costs[k][id] # NoneCost

\* C13 on calls whose costs are all numbers: what remains of the claim when
\* no rule chain can raise.
C13_NumericCosts == NumericCosts => C13_IdleButBilled

\* C13 on calls that also carry at least one analysis.
C13_WithAnalyses == (NumericCosts /\ args.analyses # EmptyDict) => C13_IdleButBilled

\* The findings resource i of the EC2 list is due when its own chain does
\* not raise.
DueEC2(i) ==
    LET instance == Instances[i]
        id == instance.InstanceId
    IN IF args.analyses = EmptyDict
          \/ EC2Raises(instance, DictGet(args.metrics_data, id, EmptyDict),
                       DictGet(args.analyses, id, EmptyAnalysis), InstanceCost(i))
       THEN <<>>
       ELSE EC2Findings(instance, DictGet(args.metrics_data, id, EmptyDict),
                        DictGet(args.analyses, id, EmptyAnalysis), InstanceCost(i))

\* C15: the call does not raise, and every resource whose own rule chain
\* evaluates cleanly has its findings in the result.
C15_ChainIsolation ==
    Generated =>
        /\ ~returned[1].raised
        /\ \A i \in 1..Len(Instances) : Range(DueEC2(i)) \subseteq Range(Recs)
        /\ \A i \in 1..Len(args.resources.S3) :
               Range(S3Findings(args.resources.S3[i],
                                CostGet(args.resource_costs, "S3",
                                        args.resources.S3[i].BucketName)))
                   \subseteq Range(Recs)

SizingTitles(id) ==
    {"EC2 Instance " \o id \o " - Right-Sizing Opportunity",
     "EC2 Instance " \o id \o " - Performance Risk"}
SizingFindings(id) ==
    {j \in 1..Len(Recs) : Recs[j].resource_id = id /\ Recs[j].title \in SizingTitles(id)}

\* The sizing advice of instance i names another tier with nonzero savings.
AdvisesChange(i) ==
    LET id == Instances[i].InstanceId
    IN /\ id \in DOMAIN args.analyses
       /\ args.analyses[id].RecommendedType # None
       /\ args.analyses[id].RecommendedType # Instances[i].InstanceType
       /\ args.analyses[id].PotentialSavings # 0

\* C25: an instance gets a right-sizing finding exactly when its analysis
\* names another tier with nonzero savings, HIGH for savings > 0 and MEDIUM
\* for savings < 0; with no advice or no analysis entry the rule neither
\* fires nor raises.
C25_RightSizingRule ==
    Generated =>
        /\ NumericCosts => ~returned[1].raised
        /\ \A i \in 1..Len(Instances) :
               LET id == Instances[i].InstanceId
               IN /\ ~AdvisesChange(i) => SizingFindings(id) = {}
                  /\ (AdvisesChange(i) /\ NumericCosts) =>
                         /\ Cardinality(SizingFindings(id)) = 1
                         /\ \A j \in SizingFindings(id) :
                                Recs[j].severity =
                                    IF args.analyses[id].PotentialSavings > 0
                                    THEN "HIGH" ELSE "MEDIUM"

\* One call with an upgrade advice, a downsize advice for the other instance
\* reported, and a third case: an instance without analysis entry.
C25_Witness ==
    /\ Generated
    /\ NumericCosts
    /\ Len(Instances) = 2
    /\ AdvisesChange(1)
    /\ args.analyses[Instances[1].InstanceId].PotentialSavings < 0
    /\ \E j \in SizingFindings(Instances[1].InstanceId) : Recs[j].severity = "MEDIUM"
    /\ Instances[2].InstanceId \notin DOMAIN args.analyses
    /\ SizingFindings(Instances[2].InstanceId) = {}

(***************************************************************************)
(* aws_cost_monitor.py: collect_resource_metrics and analyze_resources.    *)
(* The telemetry collaborator's answer for the i-th resource of category c *)
(* is telemetry[c][i]: ok = FALSE when get_all_*_metrics raises, else the  *)
(* summary it returns (the flags and detailed_metrics of the summary).     *)
(***************************************************************************)
MetricsCategories == <<"EC2", "EKS", "S3", "RDS">>

\* The key of metrics_data a resource of the category is stored under.
MetricsKey(category, r) ==
    CASE category = "EC2" -> r.InstanceId
      [] category = "EKS" -> r.ClusterName
      [] category = "S3" -> r.BucketName
      [] category = "RDS" -> r.DBInstanceIdentifier

\* What one iteration of a category's loop stores under the key.
MetricsValue(category, r, outcome) ==
    IF category = "EC2" /\ r.State # "running" THEN EmptyDict
    ELSE IF outcome.ok THEN outcome.metrics
    ELSE EmptyDict

RECURSIVE CollectLoop(_, _, _, _)
CollectLoop(category, list, outcomes, metrics_data) ==
    IF list = <<>> THEN metrics_data
    ELSE CollectLoop(category, Tail(list), Tail(outcomes),
                     DictSet(metrics_data, MetricsKey(category, Head(list)),
                             MetricsValue(category, Head(list), Head(outcomes))))

RECURSIVE CollectCategories(_, _, _, _)
CollectCategories(categories, res, telemetry, metrics_data) ==
    IF categories = <<>> THEN metrics_data
    ELSE CollectCategories(Tail(categories), res, telemetry,
                           CollectLoop(Head(categories), ListGet(res, Head(categories)),
                                       telemetry[Head(categories)], metrics_data))

collect_resource_metrics(res, telemetry) ==
    CollectCategories(MetricsCategories, res, telemetry, EmptyDict)

\* InstanceAnalyzer.analyze_instance: the sizing advisor is consulted only
\* when the metrics carry a top-level CPUUtilization with a positive value.
analyze_instance(instance_type, metrics) ==
    LET cpu_metrics == DictGet(metrics, "CPUUtilization", [avg |-> 0, max |-> 0])
    IN IF cpu_metrics.avg > 0 \/ cpu_metrics.max > 0
       THEN LET rec == recommend_instance_type(instance_type, cpu_metrics.avg,
                                               cpu_metrics.max, NoMemory)
            IN [RecommendedType |-> rec.type, PotentialSavings |-> rec.savings,
                SavingsPercent |-> rec.percent]
       ELSE EmptyAnalysis

RECURSIVE AnalyzeLoop(_, _, _)
AnalyzeLoop(instances, metrics_data, analyses) ==
    IF instances = <<>> THEN analyses
    ELSE LET instance == Head(instances)
             metrics == DictGet(metrics_data, instance.InstanceId, EmptyDict)
         IN AnalyzeLoop(Tail(instances), metrics_data,
                        DictSet(analyses, instance.InstanceId,
                                analyze_instance(instance.InstanceType, metrics)))

analyze_resources(res, metrics_data) ==
    AnalyzeLoop(ListGet(res, "EC2"), metrics_data, EmptyDict)

(***************************************************************************)
(* SpecAdvise: lines 253-272 of run on a discovered inventory: telemetry,  *)
(* analysis, then the recommendation engine.  returned collects            *)
(* metrics_data, analyses and the engine's result, in that order.          *)
(***************************************************************************)
Failed == [ok |-> FALSE, metrics |-> EmptyDict]

Fetched(m) == [ok |-> TRUE, metrics |-> m]

\* What CloudWatch answers for one instance: whether list_metrics names a
\* metric of the CloudWatch agent, whether the get_metric_statistics calls
\* return or raise, and the hourly Datapoints of CPUUtilization (percent).
NoResponse == [enhanced |-> FALSE, statistics |-> "raises", Datapoints |-> <<>>]

CloudWatchResponses ==
    {NoResponse,
     [enhanced |-> FALSE, statistics |-> "ok", Datapoints |-> <<>>],
     [enhanced |-> FALSE, statistics |-> "ok",
      Datapoints |-> <<[Average |-> 4, Maximum |-> 10], [Average |-> 6, Maximum |-> 30]>>],
     [enhanced |-> TRUE, statistics |-> "ok",
      Datapoints |-> <<[Average |-> 4, Maximum |-> 10], [Average |-> 6, Maximum |-> 30]>>]}

\* ComprehensiveMetrics.get_all_ec2_metrics.  `data` is the response dict of
\* get_metric_statistics, never empty, so monitoring_enabled is set as soon
\* as one call returns; the statistics are then computed by iterating
\* `data` itself (its keys, strings) and not data['Datapoints'], which
\* raises inside the try, so detailed_metrics stays {}.  The summary has no
\* top-level CPUUtilization key.
get_all_ec2_metrics(cw) ==
    [monitoring_enabled |-> cw.statistics = "ok",
     cw_agent_installed |-> cw.enhanced,
     detailed_metrics |-> EmptyDict]

\* The fetch for an instance: get_all_ec2_metrics raises (boto3.client
\* fails), or returns the summary of a response.
EC2Outcomes ==
    {[ok |-> FALSE, metrics |-> EmptyDict, response |-> NoResponse]} \cup
    {[ok |-> TRUE, metrics |-> get_all_ec2_metrics(r), response |-> r] :
        r \in CloudWatchResponses}

EKSOutcomes ==
    {Failed,
     Fetched([monitoring_enabled |-> FALSE, container_insights_enabled |-> FALSE]),
     Fetched([monitoring_enabled |-> TRUE, container_insights_enabled |-> TRUE])}

OtherOutcomes == {Failed, Fetched([monitoring_enabled |-> TRUE])}

Cluster(name, region) == [ClusterName |-> name, Region |-> region]

\* Cluster names are unique per region only.
ClusterLists ==
    {<<>>,
     <<Cluster("prod", "us-east-1")>>,
     <<Cluster("data", "us-east-1")>>,
     <<Cluster("prod", "us-east-1"), Cluster("prod", "us-west-2")>>}

BucketLists ==
    {<<>>,
     <<[BucketName |-> "prod", size_gb |-> 200, StorageClass |-> {"STANDARD"},
        Region |-> "us-east-1"]>>}

DatabaseLists ==
    {<<>>,
     <<[DBInstanceIdentifier |-> "prod", Status |-> "available", MultiAZ |-> TRUE,
        Region |-> "us-east-1"]>>,
     <<[DBInstanceIdentifier |-> "db-1", Status |-> "stopped", MultiAZ |-> TRUE,
        Region |-> "us-east-1"]>>}

\* Costs attributed by the cost mapper: always numbers.
MappedCosts == {0, 4200}

InitAdvise ==
    /\ pc = "call"
    /\ RunIdle
    /\ returned = <<>>
    /\ \E n \in 0..Cardinality(InstanceIds) :
         \E ids \in InjSeqs(InstanceIds, n), st \in [1..n -> States],
            co \in [1..n -> MappedCosts], t2 \in [1..n -> EC2Outcomes],
            cl \in ClusterLists, bk \in BucketLists, db \in DatabaseLists :
           \E tk \in [1..Len(cl) -> EKSOutcomes], ts \in [1..Len(bk) -> OtherOutcomes],
              tr \in [1..Len(db) -> OtherOutcomes] :
             args = [fn |-> "run",
                     resources |-> [EC2 |-> [i \in 1..n |-> Instance(ids[i], st[i])],
                                    EKS |-> cl, S3 |-> bk, RDS |-> db],
                     resource_costs |->
                         [EC2 |-> [id \in Range(ids) |->
                                      co[CHOOSE i \in 1..n : ids[i] = id]],
                          RDS |-> [d \in {db[i].DBInstanceIdentifier : i \in 1..Len(db)}
                                      |-> 4200],
                          S3 |-> [b \in {bk[i].BucketName : i \in 1..Len(bk)} |-> 4200]],
                     telemetry |-> [EC2 |-> t2, EKS |-> tk, S3 |-> ts, RDS |-> tr]]

\* any(resources.values())
AnyResources(res) == \E k \in DOMAIN res : res[k] # <<>>

\* metrics_data = self.collect_resource_metrics(resources)
AdviseCollect ==
    /\ pc = "call"
    /\ args.fn = "run"
    /\ AnyResources(args.resources)
    /\ returned = <<>>
    /\ returned' = <<collect_resource_metrics(args.resources, args.telemetry)>>
    /\ pc' = "collected"
    /\ UNCHANGED <<args, runLocals>>

\* analyses = self.analyze_resources(resources, metrics_data)
AdviseAnalyze ==
    /\ pc = "collected"
    /\ returned' = Append(returned, analyze_resources(args.resources, returned[1]))
    /\ pc' = "analyzed"
    /\ UNCHANGED <<args, runLocals>>

\* Nothing discovered: both maps stay {}.
AdviseSkip ==
    /\ pc = "call"
    /\ args.fn = "run"
    /\ ~AnyResources(args.resources)
    /\ returned = <<>>
    /\ returned' = <<EmptyDict, EmptyDict>>
    /\ pc' = "analyzed"
    /\ UNCHANGED <<args, runLocals>>

\* resource_recommendations = generate_resource_recommendations(...)
AdviseGenerate ==
    /\ pc = "analyzed"
    /\ returned' = Append(returned,
                          generate_resource_recommendations(
                              args.resources, returned[1], args.resource_costs,
                              returned[2]))
    /\ pc' = "returned"
    /\ UNCHANGED <<args, runLocals>>

NextAdvise == AdviseCollect \/ AdviseAnalyze \/ AdviseSkip \/ AdviseGenerate

SpecAdvise == InitAdvise /\ [][NextAdvise]_vars

(***************************************************************************)
(* Claims on telemetry, analysis and recommendations of a run (SpecAdvise).*)
(***************************************************************************)
Collected == args.fn = "run" /\ Len(returned) >= 1 /\ AnyResources(args.resources)
Advised == args.fn = "run" /\ Len(returned) = 3
Summary(id) == DictGet(returned[1], id, EmptyDict)
HasFinding(title) ==
    \E j \in 1..Len(returned[3].recommendations) :
        returned[3].recommendations[j].title = title
MonitoringTitle(id) == "EC2 Instance " \o id \o " - CloudWatch Monitoring Not Enabled"
AgentTitle(id) == "EC2 Instance " \o id \o " - CloudWatch Agent Not Installed"

\* C14: the monitoring-absent finding is emitted for an instance exactly when
\* its summary says monitoring_enabled = False; a summary without the flags
\* (instance stopped, or fetch failed) triggers neither the monitoring-absent
\* nor the agent-absent rule.
C14_AbsentFlagIsUnknown ==
    Advised =>
        \A i \in 1..Len(args.resources.EC2) :
            LET id == args.resources.EC2[i].InstanceId
            IN /\ HasFinding(MonitoringTitle(id)) <=>
                      /\ "monitoring_enabled" \in DOMAIN Summary(id)
                      /\ ~Summary(id)["monitoring_enabled"]
               /\ "cw_agent_installed" \notin DOMAIN Summary(id) =>
                      ~HasFinding(AgentTitle(id))

\* C14 restricted to instances whose summary carries the flag.
C14_FlagPresent ==
    Advised =>
        \A i \in 1..Len(args.resources.EC2) :
            LET id == args.resources.EC2[i].InstanceId
            IN "monitoring_enabled" \in DOMAIN Summary(id) =>
                   (HasFinding(MonitoringTitle(id)) <=> ~Summary(id)["monitoring_enabled"])

\* The discovered resources, each named by its category and list position.
Units ==
    {u \in Range(MetricsCategories) \X (1..3) : u[2] <= Len(args.resources[u[1]])}
UnitKey(u) == MetricsKey(u[1], args.resources[u[1]][u[2]])
UnitValue(u) == MetricsValue(u[1], args.resources[u[1]][u[2]], args.telemetry[u[1]][u[2]])

\* C18: distinct discovered resources never write the same key of the
\* telemetry map, and the entry under a resource's key is the summary
\* stored for that resource.
C18_OneKeyPerResource ==
    Collected =>
        /\ \A u, v \in Units : u # v => UnitKey(u) # UnitKey(v)
        /\ \A u \in Units : returned[1][UnitKey(u)] = UnitValue(u)

\* The analysis map alone: one key per instance, holding its own analysis.
C18_AnalysesOnly ==
    (Collected /\ Len(returned) >= 2) =>
        \A i \in 1..Len(args.resources.EC2) :
            LET instance == args.resources.EC2[i]
            IN /\ instance.InstanceId \in DOMAIN returned[2]
               /\ \A j \in 1..Len(args.resources.EC2) :
                      i # j => args.resources.EC2[j].InstanceId # instance.InstanceId

\* The fetch made for resource u raised (no fetch is made for an instance
\* that is not running).
FetchFailed(u) ==
    /\ ~args.telemetry[u[1]][u[2]].ok
    /\ u[1] = "EC2" => args.resources.EC2[u[2]].State = "running"

\* C26: a failed fetch leaves {} under the resource's key and every other
\* resource keeps the entry of its own fetch; every resource has an entry
\* in the telemetry map and every instance one in the analysis map.
C26_TelemetryIsolation ==
    Collected =>
        /\ \A u \in Units : UnitKey(u) \in DOMAIN returned[1]
        /\ \A u \in Units :
               FetchFailed(u) =>
                   /\ returned[1][UnitKey(u)] = EmptyDict
                   /\ \A v \in Units \ {u} :
                          ~FetchFailed(v) => returned[1][UnitKey(v)] = UnitValue(v)
        /\ Len(returned) >= 2 =>
               \A i \in 1..Len(args.resources.EC2) :
                   args.resources.EC2[i].InstanceId \in DOMAIN returned[2]

\* Resource u shares its key with no other discovered resource.
OwnKey(u) == \A v \in Units \ {u} : UnitKey(v) # UnitKey(u)

\* C26 for the resources that share their key with no other resource.
C26_OwnKeys ==
    Collected =>
        /\ \A u \in Units : UnitKey(u) \in DOMAIN returned[1]
        /\ \A u \in Units :
               (FetchFailed(u) /\ OwnKey(u)) =>
                   /\ returned[1][UnitKey(u)] = EmptyDict
                   /\ \A v \in Units \ {u} :
                          (~FetchFailed(v) /\ OwnKey(v)) =>
                              returned[1][UnitKey(v)] = UnitValue(v)
        /\ Len(returned) >= 2 =>
               \A i \in 1..Len(args.resources.EC2) :
                   args.resources.EC2[i].InstanceId \in DOMAIN returned[2]

RECURSIVE SumAverage(_)
SumAverage(dps) == IF dps = <<>> THEN 0 ELSE Head(dps).Average + SumAverage(Tail(dps))
RECURSIVE MaxMaximum(_)
MaxMaximum(dps) ==
    IF dps = <<>> THEN 0 ELSE Max2(Head(dps).Maximum, MaxMaximum(Tail(dps)))

\* The analysis the sizing advisor gives for the observed CPU of instance i.
AdviceFor(i) ==
    LET dps == args.telemetry.EC2[i].response.Datapoints
        rec == recommend_instance_type(args.resources.EC2[i].InstanceType,
                                       SumAverage(dps) \div Len(dps), MaxMaximum(dps),
                                       NoMemory)
    IN [RecommendedType |-> rec.type, PotentialSavings |-> rec.savings,
        SavingsPercent |-> rec.percent]

\* The fetch for running instance i returned CPU datapoints with max > 0.
CpuObserved(i) ==
    /\ args.resources.EC2[i].State = "running"
    /\ args.telemetry.EC2[i].ok
    /\ args.telemetry.EC2[i].response.statistics = "ok"
    /\ MaxMaximum(args.telemetry.EC2[i].response.Datapoints) > 0

\* C28: the analysis of a running instance whose fetch returned CPU
\* datapoints with max > 0 is the sizing advisor's result for the observed
\* average and maximum, not the default of an instance without metrics.
C28_ObservedCpuReachesAdvisor ==
    (Collected /\ Len(returned) >= 2) =>
        \A i \in 1..Len(args.resources.EC2) :
            CpuObserved(i) =>
                /\ returned[2][args.resources.EC2[i].InstanceId] = AdviceFor(i)
                /\ returned[2][args.resources.EC2[i].InstanceId] # EmptyAnalysis

(***************************************************************************)
(* excel_exporter.py: the 'Actual Cost ($)' column of the EC2 and RDS      *)
(* sheets.  A cell holds round(cost, 2), kept here in cents.               *)
(***************************************************************************)
\* round(num / den, 2) in cents.
Round2(num, den) == (200 * num + den) \div (2 * den)

\* InstanceAnalyzer.calculate_monthly_cost, in 1/10000 dollar.
calculate_monthly_cost(instance_type) ==
    IF InCatalog(instance_type)
    THEN get_instance_specs(instance_type).Price * HoursPerMonth
    ELSE 0

\* create_ec2_sheet: one row per instance.  resource_costs is the cost map
\* of the category, {} standing for the default None as well (only its
\* truthiness is tested); without it the cell is the analysis'
\* CurrentMonthlyCost.
create_ec2_sheet(ec2_instances, metrics_data, analyses, resource_costs) ==
    [i \in 1..Len(ec2_instances) |->
        LET instance_id == ec2_instances[i].InstanceId
            analysis == DictGet(analyses, instance_id, EmptyDict)
        IN [id |-> instance_id,
            actual_cost |->
                IF resource_costs # EmptyDict
                THEN Round2(DictGet(resource_costs, instance_id, 0), 1000)
                ELSE Round2(DictGet(analysis, "CurrentMonthlyCost", 0), 10000)]]

\* create_rds_sheet: the cost map's amount, 0 without a cost map.
create_rds_sheet(rds_instances, resource_costs) ==
    [i \in 1..Len(rds_instances) |->
        LET db_id == rds_instances[i].DBInstanceIdentifier
        IN [id |-> db_id,
            actual_cost |->
                IF resource_costs # EmptyDict
                THEN Round2(DictGet(resource_costs, db_id, 0), 1000)
                ELSE 0]]

\* export, the EC2 and RDS sheets: create_ec2_sheet is called without the
\* cost map, create_rds_sheet with resource_costs.get('RDS', {}).
export(res, metrics_data, analyses, resource_costs) ==
    [EC2 |-> create_ec2_sheet(ListGet(res, "EC2"), metrics_data, analyses, EmptyDict),
     RDS |-> create_rds_sheet(ListGet(res, "RDS"), DictGet(resource_costs, "RDS", EmptyDict))]

(***************************************************************************)
(* SpecReport: export called with the maps run hands over at lines         *)
(* 308-318.                                                                *)
(***************************************************************************)
ReportTypes == {"t3.xlarge", "t2.micro"}

\* What analyze_resources stores for an instance: the analysis with the
\* catalog-derived CurrentMonthlyCost, or the degraded record without it.
ReportAnalyses(instance_type) ==
    {[InstanceType |-> instance_type,
      CurrentMonthlyCost |-> calculate_monthly_cost(instance_type)],
     [InstanceType |-> instance_type]}

InitReport ==
    /\ pc = "call"
    /\ RunIdle
    /\ returned = <<>>
    /\ \E n \in 0..Cardinality(InstanceIds) :
         \E ids \in InjSeqs(InstanceIds, n), ty \in [1..n -> ReportTypes],
            costed \in SUBSET (1..n), db \in DatabaseLists, dbcosted \in BOOLEAN :
           \E co \in [costed -> {0, 4200, 1239}],
              an \in [1..n -> UNION {ReportAnalyses(t) : t \in ReportTypes}] :
             /\ \A i \in 1..n : an[i].InstanceType = ty[i]
             /\ args = [fn |-> "export",
                        resources |->
                            [EC2 |-> [i \in 1..n |->
                                        [InstanceId |-> ids[i], InstanceType |-> ty[i],
                                         State |-> "running", Region |-> "us-east-1"]],
                             RDS |-> db],
                        metrics_data |-> EmptyDict,
                        analyses |-> [id \in Range(ids) |->
                                         an[CHOOSE i \in 1..n : ids[i] = id]],
                        resource_costs |->
                            [EC2 |-> [id \in {ids[i] : i \in costed} |->
                                         co[CHOOSE i \in costed : ids[i] = id]],
                             RDS |-> IF dbcosted
                                     THEN [d \in {db[i].DBInstanceIdentifier :
                                                     i \in 1..Len(db)} |-> 4200]
                                     ELSE EmptyDict]]

CallExport ==
    /\ pc = "call"
    /\ args.fn = "export"
    /\ returned' = <<export(args.resources, args.metrics_data, args.analyses,
                            args.resource_costs)>>
    /\ pc' = "returned"
    /\ UNCHANGED <<args, runLocals>>

NextReport == CallExport

SpecReport == InitReport /\ [][NextReport]_vars

(***************************************************************************)
(* Claims on the report (SpecReport).                                      *)
(***************************************************************************)
Exported == args.fn = "export" /\ Len(returned) = 1
Attributed(category, id) == args.resource_costs[category][id]

\* C27: the cost cell of every row of the EC2 sheet, and of the RDS sheet,
\* is the cost attributed to that resource in the run.
C27_ReportShowsAttributedCost ==
    Exported =>
        /\ \A i \in 1..Len(returned[1].EC2) :
               returned[1].EC2[i].id \in DOMAIN args.resource_costs.EC2 =>
                   returned[1].EC2[i].actual_cost =
                       Round2(Attributed("EC2", returned[1].EC2[i].id), 1000)
        /\ \A i \in 1..Len(returned[1].RDS) :
               returned[1].RDS[i].id \in DOMAIN args.resource_costs.RDS =>
                   returned[1].RDS[i].actual_cost =
                       Round2(Attributed("RDS", returned[1].RDS[i].id), 1000)

\* C27 for the RDS sheet alone.
C27_DatabaseSection ==
    Exported =>
        /\ Len(returned[1].RDS) = Len(args.resources.RDS)
        /\ \A i \in 1..Len(returned[1].RDS) :
               returned[1].RDS[i].id \in DOMAIN args.resource_costs.RDS =>
                   returned[1].RDS[i].actual_cost =
                       Round2(Attributed("RDS", returned[1].RDS[i].id), 1000)

(***************************************************************************)
(* resource_discovery.py: the discover_* methods.  The cloud answers each  *)
(* regional listing call with an outcome: raises = "no" and the listed     *)
(* items, or the exception the call raises.  An item carries the answers   *)
(* of the nested calls made for it: detail_ok (describe_cluster,           *)
(* describe_table), nested_ok (list_nodegroups, describe_subnets), nested  *)
(* (how many node groups / subnets exist) and nested_broken (the position  *)
(* of the describe_nodegroup call that raises, 0 for none).                *)
(***************************************************************************)
FallbackRegions == <<"us-east-1", "us-west-2", "eu-west-1", "ap-southeast-1">>

\* _get_regions: the enumerated regions, or the fallback when the call raises.
get_regions(response) ==
    IF response.raises # "no" THEN FallbackRegions ELSE response.regions

RECURSIVE Flatten(_)
Flatten(ss) == IF ss = <<>> THEN <<>> ELSE Head(ss) \o Flatten(Tail(ss))

Listed(outcome) == IF outcome.raises # "no" THEN <<>> ELSE outcome.items

\* discover_ec2_instances, one region: running and stopped instances only.
EC2RegionRecords(region, outcome) ==
    LET keep == SelectSeq(Listed(outcome), LAMBDA x : x.State \in {"running", "stopped"})
    IN [i \in 1..Len(keep) |->
           [InstanceId |-> keep[i].id, InstanceType |-> "t3.xlarge",
            State |-> keep[i].State, Region |-> region]]

\* cluster_data['NodeGroups'] after the inner try of discover_eks_clusters.
NodeGroupsOf(item) ==
    IF ~item.nested_ok THEN <<>>
    ELSE [k \in 1..(IF item.nested_broken = 0 THEN item.nested
                    ELSE item.nested_broken - 1) |-> [Name |-> "ng-" \o ToString(k)]]

\* discover_eks_clusters, one region: a cluster whose describe_cluster raises
\* is skipped.
EKSRegionRecords(region, outcome) ==
    LET keep == SelectSeq(Listed(outcome), LAMBDA x : x.detail_ok)
    IN [i \in 1..Len(keep) |->
           [ClusterName |-> keep[i].id, Region |-> region,
            NodeGroups |-> NodeGroupsOf(keep[i])]]

\* discover_vpcs, one region.
VPCRegionRecords(region, outcome) ==
    LET items == Listed(outcome)
    IN [i \in 1..Len(items) |->
           [VpcId |-> items[i].id, Region |-> region,
            SubnetCount |-> IF items[i].nested_ok THEN items[i].nested ELSE 0]]

\* discover_rds_instances, discover_lambda_functions, discover_load_balancers,
\* discover_secrets_manager_secrets, discover_systems_manager_instances,
\* discover_cloudwatch_alarms, one region: one record per listed item.
ListingRegionRecords(region, outcome) ==
    LET items == Listed(outcome)
    IN [i \in 1..Len(items) |-> [Id |-> items[i].id, Region |-> region]]

\* discover_dynamodb_tables, discover_guardduty_detectors, one region: an
\* item whose describe call raises is skipped.
DetailRegionRecords(region, outcome) ==
    LET keep == SelectSeq(Listed(outcome), LAMBDA x : x.detail_ok)
    IN [i \in 1..Len(keep) |-> [Id |-> keep[i].id, Region |-> region]]

RegionRecords(category, region, outcome) ==
    CASE category = "EC2" -> EC2RegionRecords(region, outcome)
      [] category = "EKS" -> EKSRegionRecords(region, outcome)
      [] category = "VPC" -> VPCRegionRecords(region, outcome)
      [] category \in {"RDS", "Lambda"} -> ListingRegionRecords(region, outcome)
      [] category = "DynamoDB" -> DetailRegionRecords(region, outcome)

\* Mutant: the first failing region ends the scan with nothing.
RegionScan_AbortOnFailure(category, regions, cloud) ==
    IF \E i \in 1..Len(regions) : cloud[regions[i]].raises # "no" THEN <<>>
    ELSE Flatten([i \in 1..Len(regions) |->
                     RegionRecords(category, regions[i], cloud[regions[i]])])

\* for region in self.regions: try: ... except ...: continue
RegionScan(category, regions, cloud) ==
    Flatten([i \in 1..Len(regions) |->
                RegionRecords(category, regions[i], cloud[regions[i]])])

\* One bucket of discover_s3_buckets: location is the LocationConstraint
\* (None for us-east-1), nested the number of objects, size their total.
BucketRecord(bucket) ==
    <<[BucketName |-> bucket.id,
       Region |-> IF bucket.location_ok /\ bucket.location # None
                  THEN bucket.location ELSE "us-east-1",
       Size |-> IF bucket.nested_ok THEN bucket.size ELSE 0,
       ObjectCount |-> IF bucket.nested_ok THEN bucket.nested ELSE 0,
       StorageClass |-> IF bucket.nested_ok /\ bucket.nested > 0
                        THEN {"STANDARD"} ELSE {}]>>

discover_s3_buckets(outcome) ==
    Flatten([i \in 1..Len(Listed(outcome)) |-> BucketRecord(Listed(outcome)[i])])

\* The discover_* method of a category.
discover(category, regions, cloud) ==
    IF category = "S3" THEN discover_s3_buckets(cloud["global"])
    ELSE RegionScan(category, regions, cloud)

(***************************************************************************)
(* SpecDiscovery: ResourceDiscovery() followed by one discover_* call.     *)
(* returned collects self.regions and then the records of the call.        *)
(***************************************************************************)
DiscoveryCategories == {"EC2", "EKS", "VPC", "RDS", "Lambda", "DynamoDB", "S3"}

RegionCategories == DiscoveryCategories \ {"S3"}

\* What describe_regions may answer at construction.
RegionResponses ==
    {[raises |-> "Exception", regions |-> <<>>],
     [raises |-> "no", regions |-> <<"us-east-1", "us-west-2", "eu-central-1">>]}

Raises(kind) == [raises |-> kind, items |-> <<>>]

Lists(items) == [raises |-> "no", items |-> items]

Item(id, state, detail_ok, nested_ok, nested, nested_broken) ==
    [id |-> id, State |-> state, detail_ok |-> detail_ok, nested_ok |-> nested_ok,
     nested |-> nested, nested_broken |-> nested_broken]

\* The answers one region may give to the listing call of a category, with
\* ids still to be made unique per region.
Templates(category) ==
    {Raises("ClientError:UnauthorizedOperation"), Raises("Exception")} \cup
    CASE category = "EC2" ->
             {Raises("ClientError:AccessDenied"),
              Lists(<<>>),
              Lists(<<Item("i-1", "running", TRUE, TRUE, 0, 0)>>),
              Lists(<<Item("i-1", "terminated", TRUE, TRUE, 0, 0),
                      Item("i-2", "stopped", TRUE, TRUE, 0, 0)>>)}
      [] category = "EKS" ->
             {Lists(<<Item("prod", "n/a", TRUE, TRUE, 2, 0)>>),
              Lists(<<Item("prod", "n/a", TRUE, FALSE, 2, 0)>>),
              Lists(<<Item("prod", "n/a", FALSE, TRUE, 2, 0),
                      Item("data", "n/a", TRUE, TRUE, 2, 2)>>)}
      [] category = "VPC" ->
             {Lists(<<Item("vpc-1", "n/a", TRUE, TRUE, 3, 0)>>),
              Lists(<<Item("vpc-1", "n/a", TRUE, FALSE, 3, 0)>>)}
      [] category \in {"RDS", "Lambda"} ->
             {Lists(<<>>),
              Lists(<<Item("a", "n/a", TRUE, TRUE, 0, 0)>>),
              Lists(<<Item("a", "n/a", TRUE, TRUE, 0, 0),
                      Item("b", "n/a", TRUE, TRUE, 0, 0)>>)}
      [] category = "DynamoDB" ->
             {Lists(<<Item("t-1", "n/a", TRUE, TRUE, 0, 0)>>),
              Lists(<<Item("t-1", "n/a", FALSE, TRUE, 0, 0),
                      Item("t-2", "n/a", TRUE, TRUE, 0, 0)>>)}

\* EC2 ids are unique across regions; the other names are left as they are
\* (per-region names).
Localize(category, region, outcome) ==
    IF category # "EC2" THEN outcome
    ELSE [outcome EXCEPT !.items =
             [i \in 1..Len(@) |-> [@[i] EXCEPT !.id = @ \o "-" \o region]]]

Bucket(id, location_ok, location, nested_ok, nested, size) ==
    [id |-> id, location_ok |-> location_ok, location |-> location,
     nested_ok |-> nested_ok, nested |-> nested, size |-> size]

\* One bucket: where get_bucket_location puts it (or that the call raises)
\* and what its object enumeration gives (or that it raises).
BucketChoices ==
    {Bucket("logs", lo[1], lo[2], en[1], en[2], en[3]) :
        lo \in {<<FALSE, None>>, <<TRUE, None>>, <<TRUE, "eu-central-1">>,
                <<TRUE, "us-west-2">>},
        en \in {<<FALSE, 2, 10>>, <<TRUE, 0, 0>>, <<TRUE, 2, 10>>}}

BucketOutcomes ==
    {Raises("Exception"), Lists(<<>>)}
    \cup {Lists(<<b>>) : b \in BucketChoices}
    \cup {Lists(<<b, Bucket("data", TRUE, None, TRUE, 2, 10)>>) : b \in BucketChoices}

InitDiscovery ==
    /\ pc = "call"
    /\ RunIdle
    /\ returned = <<>>
    /\ \E response \in RegionResponses, category \in DiscoveryCategories :
         \/ /\ category \in RegionCategories
            /\ \E t \in [Range(get_regions(response)) -> Templates(category)] :
                 args = [fn |-> "discover", category |-> category,
                         describe_regions |-> response,
                         cloud |-> [r \in DOMAIN t |-> Localize(category, r, t[r])]]
         \/ /\ category = "S3"
            /\ \E o \in BucketOutcomes :
                 args = [fn |-> "discover", category |-> category,
                         describe_regions |-> response,
                         cloud |-> [g \in {"global"} |-> o]]

\* ResourceDiscovery.__init__: self.regions = self._get_regions()
DiscoveryConstruct ==
    /\ pc = "call"
    /\ args.fn = "discover"
    /\ returned' = <<get_regions(args.describe_regions)>>
    /\ pc' = "constructed"
    /\ UNCHANGED <<args, runLocals>>

\* The discover_* method of the category.
DiscoveryCall ==
    /\ pc = "constructed"
    /\ args.fn = "discover"
    /\ returned' = Append(returned, discover(args.category, returned[1], args.cloud))
    /\ pc' = "returned"
    /\ UNCHANGED <<args, runLocals>>

NextDiscovery == DiscoveryConstruct \/ DiscoveryCall

SpecDiscovery == InitDiscovery /\ [][NextDiscovery]_vars

(***************************************************************************)
(* Claims on discovery (SpecDiscovery).                                    *)
(***************************************************************************)
Discovered == args.fn = "discover" /\ Len(returned) = 2
SelfRegions == returned[1]
Records == returned[2]
RecordsOf(region) == SelectSeq(Records, LAMBDA rec : rec.Region = region)
RecordId(rec) ==
    CASE args.category = "EC2" -> rec.InstanceId
      [] args.category = "EKS" -> rec.ClusterName
      [] args.category = "VPC" -> rec.VpcId
      [] args.category = "S3" -> rec.BucketName
      [] OTHER -> rec.Id

\* The items of a successful listing that the method turns into records.
Eligible(items) ==
    SelectSeq(items, LAMBDA x :
        /\ args.category = "EC2" => x.State \in {"running", "stopped"}
        /\ args.category \in {"EKS", "DynamoDB"} => x.detail_ok)

\* C16: a region whose listing call raises contributes nothing, every other
\* region contributes all its records, and a failing nested call leaves
\* the parent record in the result with empty totals.
C16_DiscoveryIsolation ==
    Discovered =>
        /\ args.category \in RegionCategories =>
               \A r \in Range(SelfRegions) :
                   LET recs == RecordsOf(r)
                       o == args.cloud[r]
                   IN IF o.raises # "no" THEN recs = <<>>
                      ELSE /\ Len(recs) = Len(Eligible(o.items))
                           /\ \A i \in 1..Len(recs) :
                                  /\ RecordId(recs[i]) = Eligible(o.items)[i].id
                                  /\ (args.category = "EKS"
                                          /\ ~Eligible(o.items)[i].nested_ok) =>
                                         recs[i].NodeGroups = <<>>
                                  /\ (args.category = "VPC"
                                          /\ ~Eligible(o.items)[i].nested_ok) =>
                                         recs[i].SubnetCount = 0
        /\ (args.category = "S3" /\ args.cloud["global"].raises = "no") =>
               LET buckets == args.cloud["global"].items
               IN /\ Len(Records) = Len(buckets)
                  /\ \A i \in 1..Len(buckets) :
                         /\ Records[i].BucketName = buckets[i].id
                         /\ ~buckets[i].nested_ok =>
                                /\ Records[i].Size = 0
                                /\ Records[i].ObjectCount = 0
                                /\ Records[i].StorageClass = {}

\* One region's listing raised and another region's records were returned.
C16_Witness ==
    /\ Discovered
    /\ args.category \in RegionCategories
    /\ \E r1, r2 \in Range(SelfRegions) :
           /\ args.cloud[r1].raises # "no"
           /\ args.cloud[r2].raises = "no"
           /\ RecordsOf(r2) # <<>>

\* C17: every record returned by discovery carries a region of self.regions.
C17_RegionEnumerated ==
    Discovered => \A i \in 1..Len(Records) : Records[i].Region \in Range(SelfRegions)

\* C17 for the region-scoped categories only.
C17_RegionScoped ==
    (Discovered /\ args.category \in RegionCategories) =>
        \A i \in 1..Len(Records) : Records[i].Region \in Range(SelfRegions)

(***************************************************************************)
(* Claims on the run (SpecRun).                                            *)
(***************************************************************************)
BillingSucceeded == ce_response.ok
BilledPositive == \E i \in 1..Len(ce_response.groups) : ce_response.groups[i].cost > 0
RunEnded == pc = "exited"
DiscoveredKeys == [i \in 1..Len(resources) |-> resources[i].key]

\* The per-category sheets of the workbook: all but the leading Summary.
ReportSections == IF sheets = <<>> THEN <<>> ELSE Tail(sheets)

\* C1: a run whose billing summary succeeds with a positive line item saves
\* the report and exits 0, whatever later sub-call fails.
C1_ReportAlwaysProduced ==
    (RunEnded /\ BillingSucceeded /\ BilledPositive)
        => (exit_code = 0 /\ report_saved)

\* C2: the categories discovered in a run are exactly the categories the
\* classifier derives from the bill.
C2_DiscoversExactlyBilled ==
    (RunEnded /\ BillingSucceeded)
        => Range(DiscoveredKeys) = Range(get_services_to_discover(costs_by_service).list)

\* C3: categories are discovered, and report sections laid out, in the
\* classifier's billing-amount-descending order.
C3_BillOrderEverywhere ==
    (RunEnded /\ BillingSucceeded /\ BilledPositive)
        => /\ DiscoveredKeys = get_services_to_discover(costs_by_service).list
           /\ ReportSections = get_services_to_discover(costs_by_service).list

\* C4: a failing billing summary aborts the run with a message and a
\* non-zero exit before any later stage, and nothing else aborts a run.
C4_OnlyBillingAborts ==
    RunEnded =>
        /\ ~BillingSucceeded =>
              /\ exit_code # 0
              /\ stderr # ""
              /\ stages = <<"fetch_costs_by_service">>
              /\ ~report_saved
        /\ exit_code # 0 => ~BillingSucceeded

\* The billing summary succeeded without a line item of positive amount.
NothingBilled == BillingSucceeded /\ ~BilledPositive
PositiveAmounts == {i \in 1..Len(ce_response.groups) : ce_response.groups[i].cost > 0}
RECURSIVE SumAmounts(_)
SumAmounts(S) ==
    IF S = {} THEN 0
    ELSE LET i == CHOOSE i \in S : TRUE
         IN ce_response.groups[i].cost + SumAmounts(S \ {i})

\* After a successful billing summary the billed-services map holds the
\* line items of positive amount and the total is their sum.
OnlyPositiveBilled ==
    (BillingSucceeded /\ pc # "start") =>
        /\ \A i \in 1..Len(costs_by_service) :
               /\ costs_by_service[i].cost > 0
               /\ \E g \in PositiveAmounts : ce_response.groups[g] = costs_by_service[i]
        /\ Len(costs_by_service) = Cardinality(PositiveAmounts)
        /\ total_cost = SumAmounts(PositiveAmounts)

\* No stage after the billing summary has run and nothing was saved.
OnlyFetched ==
    /\ \A i \in 1..Len(stages) : stages[i] = "fetch_costs_by_service"
    /\ resources = <<>>
    /\ sheets = <<>>
    /\ ~report_saved
    /\ stderr = ""
    /\ exit_code \in {NoExit, 0}

\* C30: a run whose billing summary succeeds without a positive line item
\* ends with exit code 0, having invoked no stage after the billing summary
\* and saved no report; line items of amount <= 0 never enter the
\* billed-services map or the total.
C30_NothingBilledEndsRun ==
    /\ [](OnlyPositiveBilled /\ (NothingBilled => OnlyFetched))
    /\ (NothingBilled /\ pc = "start") ~>
           (pc = "exited" /\ exit_code = 0 /\ OnlyFetched /\ costs_by_service = <<>>
               /\ total_cost = 0)

\* A run ended on a bill whose line items are a credit and a zero amount.
C30_Witness ==
    /\ RunEnded
    /\ NothingBilled
    /\ \E i, j \in 1..Len(ce_response.groups) :
           ce_response.groups[i].cost < 0 /\ ce_response.groups[j].cost = 0
    /\ exit_code = 0
    /\ stages = <<"fetch_costs_by_service">>
    /\ ~report_saved

====
